---- MODULE Spec2Model ----
(***************************************************************************)
(* Model of the JTC COD mutation pipeline (the code-agent edge function),  *)
(* its generation backend adapter (callAi / callLovableAi), the remote     *)
(* repository it reads and writes through the GitHub contents API, and the *)
(* undo-commit edge function.                                              *)
(*                                                                         *)
(* Texts (file bodies, backend outputs) are sequences of character codes.  *)
(* Optional values are sequences of length 0 (absent) or 1 (present).      *)
(***************************************************************************)
EXTENDS Integers, Sequences, FiniteSets, TLC

VARIABLES
    env,            \* deployment and environment of the run (fixed after Init)
    client,         \* the chat client: its commit records and its calls
    backendOut,     \* raw outputs of the classifier and of the selector
    history,        \* the remote repository: its commits, oldest first
    otherWrites,    \* commits made so far by writers other than the handlers
    ai,             \* the generation backend adapter call in progress
    pc,             \* position of the code-agent handler
    intent,         \* the classifier's output, trimmed and lower-cased
    allFiles,       \* blob paths of the tree listing
    selectedFiles,  \* paths chosen by the relevance selector
    pending,        \* indices of selectedFiles whose load has not completed
    fileContents,   \* loaded files {path, content, sha}
    parsed,         \* the parsed change set
    idx,            \* index of the edit the apply loop is at
    freshFile,      \* the file fetched for the current edit, with its marker
    freshAt,        \* the length of the history when it was fetched
    lastCommitSha,  \* commit identifier of the last successful write
    filesChanged,   \* changed-paths list
    errors,         \* error list (paths of failed edits)
    response,       \* the response of the code-agent handler
    putLog,         \* every gateway call of the apply loop, in order
    upc,            \* position of the undo-commit handler
    ureq,           \* the undo request, and the head commit when it arrived
    ucommit,        \* the commit detail fetched by the undo handler
    uidx,           \* index of the file the undo loop is at
    uparent,        \* content of the current file at the parent revision
    ucurrent,       \* marker of the current file fetched by the undo handler
    filesReverted,  \* reverted-paths list
    uresponse,      \* the response of the undo-commit handler
    ulog            \* every write and delete call of the undo handler, in order

vars == <<env, client, backendOut, history, otherWrites, ai, pc, intent,
          allFiles, selectedFiles, pending, fileContents, parsed, idx,
          freshFile, freshAt, lastCommitSha, filesChanged, errors, response,
          putLog, upc, ureq, ucommit, uidx, uparent, ucurrent, filesReverted,
          uresponse, ulog>>

agentVars == <<pc, intent, allFiles, selectedFiles, pending, fileContents,
               parsed, idx, freshFile, freshAt, lastCommitSha, filesChanged, errors,
               response, putLog>>

undoVars == <<upc, ureq, ucommit, uidx, uparent, ucurrent, filesReverted,
              uresponse, ulog>>

----------------------------------------------------------------------------
(* Bounds of the model *)

\* commits other writers may make during a code-agent run
MaxOtherWrites == 1
\* commits other writers may make around an undo call
MaxUndoOtherWrites == 2
\* edits in a generated change set
MaxChanges == 2
\* width of a line of the base64 body the contents API returns
B64LineLen == 8
\* messages the user sends and undo requests the user makes in a client session
MaxClientCalls == 4
\* commits another writer makes beside an apply loop and an undo call
MaxSharedWrites == 1

----------------------------------------------------------------------------
(* Optional values *)

None == <<>>
Some(x) == <<x>>
IsSome(o) == Len(o) = 1
Get(o) == o[1]

\* null commit identifier (commit identifiers are positions in history)
NullSha == 0

----------------------------------------------------------------------------
(* Texts *)

NL == 10
SP == 32
TAB == 9
CR == 13

Whitespace == {TAB, NL, CR, SP}

RECURSIVE TrimStart(_)
TrimStart(s) ==
    IF s # <<>> /\ Head(s) \in Whitespace THEN TrimStart(Tail(s)) ELSE s

RECURSIVE TrimEnd(_)
TrimEnd(s) ==
    IF s # <<>> /\ s[Len(s)] \in Whitespace
    THEN TrimEnd(SubSeq(s, 1, Len(s) - 1))
    ELSE s

\* String.prototype.trim
Trim(s) == TrimEnd(TrimStart(s))

\* String.prototype.toLowerCase on ASCII codes
ToLowerCase(s) ==
    [i \in 1..Len(s) |-> IF s[i] >= 65 /\ s[i] <= 90 THEN s[i] + 32 ELSE s[i]]

\* the literal "code"
CodeToken == <<99, 111, 100, 101>>

\* Math.pow(2, n)
RECURSIVE Pow2(_)
Pow2(n) == IF n = 0 THEN 1 ELSE 2 * Pow2(n - 1)

\* Array.prototype.includes
Includes(seq, x) == \E i \in 1..Len(seq) : seq[i] = x

\* Array.prototype.slice(0, n)
Slice0(seq, n) == SubSeq(seq, 1, IF Len(seq) < n THEN Len(seq) ELSE n)

----------------------------------------------------------------------------
(* base64 bodies of the contents API *)

\* offset of the encoded alphabet: no encoded symbol is a line feed
B64Offset == 256

\* btoa(unescape(encodeURIComponent(s))) on ASCII text
Btoa(s) == [i \in 1..Len(s) |-> s[i] + B64Offset]

\* atob, then decodeURIComponent(escape(raw)) on ASCII text
Atob(e) == [i \in 1..Len(e) |-> e[i] - B64Offset]

\* content.replace(/\n/g, "")
StripNewlines(e) == SelectSeq(e, LAMBDA x : x # NL)

\* the remote's line-wrapped body: a line feed after every B64LineLen symbols
WrapLines(e) ==
    LET lines == IF Len(e) = 0 THEN 1
                 ELSE (Len(e) + B64LineLen - 1) \div B64LineLen
        last == Len(e) + lines
    IN [k \in 1..last |->
          IF k = last \/ k % (B64LineLen + 1) = 0 THEN NL
          ELSE e[k - (k \div (B64LineLen + 1))]]

\* the body the remote returns for a blob
RemoteBody(content) == WrapLines(Btoa(content))

\* the blob the remote stores for a request body
RemoteDecode(body) == Atob(StripNewlines(body))

\* the revision marker of a blob: a hash of its length and bytes
BlobSha(content) == <<Len(content)>> \o content

----------------------------------------------------------------------------
(* File bodies and paths of the model *)

\* a body of 12 characters, with a line feed inside
COld == <<105, 109, 112, 111, 114, 116, NL, 97, 112, 112, 40, 41>>
\* a body of 10 characters
CNew == <<123, 34, 110, 97, 109, 101, 34, 58, 49, 125>>
\* a body of 11 characters, 9 after trimming
CNine == <<SP, 123, 34, 97, 34, 58, 34, 98, 34, 125, NL>>
\* a body written by another writer
COther == <<47, 47, 32, 111, 116, 104, 101, 114, 32, 101, 100, 105, 116>>
\* the empty body
CEmpty == <<>>

Paths == {"package.json", "a.ts"}

\* the paths a listing may hold, in tree order, each with the allow-listed
\* extension it ends with ("" when it ends with none)
TreeEntries ==
    <<<<"README.md", "">>, <<"a.ts", ".ts">>, <<"b.css", ".css">>,
      <<"c.js", ".js">>, <<"d.jsx", ".jsx">>, <<"e.tsx", ".tsx">>,
      <<"f.json", ".json">>, <<"g.py", ".py">>, <<"h.vue", ".vue">>,
      <<"i.svelte", ".svelte">>, <<"j.scss", ".scss">>, <<"k.html", ".html">>,
      <<"logo.png", "">>, <<"m.ts", ".ts">>, <<"n.ts", ".ts">>,
      <<"o.ts", ".ts">>, <<"p.ts", ".ts">>, <<"package.json", ".json">>,
      <<"q.ts", ".ts">>>>

\* the tree order of the paths
TreeOrder == [i \in 1..Len(TreeEntries) |-> TreeEntries[i][1]]

\* the extension of a path; ghost.ts is a path of no tree
PathExt == [p \in {TreeEntries[i][1] : i \in 1..Len(TreeEntries)}
                   \cup {"ghost.ts"} |->
              IF p = "ghost.ts" THEN ".ts"
              ELSE LET i == CHOOSE j \in 1..Len(TreeEntries) :
                                 TreeEntries[j][1] = p
                   IN TreeEntries[i][2]]

criticalFiles == <<"package.json", "index.html", "tsconfig.json",
                   "vite.config.ts", "vite.config.js", "tailwind.config.ts",
                   "tailwind.config.js">>

codeExts == <<".html", ".css", ".js", ".jsx", ".ts", ".tsx", ".json", ".py",
              ".vue", ".svelte", ".scss">>

maxRetries == 3
SelectorCap == 15
FallbackCap == 12
ContentCeiling == 20000
MinCriticalLength == 10
BackoffBaseMs == 1000

\* a body one character short of the context ceiling, and one that reaches it
CBelowCeiling == [i \in 1..(ContentCeiling - 1) |-> 120]
CAtCeiling == [i \in 1..ContentCeiling |-> 120]

----------------------------------------------------------------------------
(* The remote repository behind the contents API *)

\* the commit at the head of the default branch
HeadCommit == history[Len(history)]

\* the tree at the head: path -> optional blob
HeadTree == HeadCommit.tree

\* the marker of a path in a tree, absent when the path does not exist
MarkerOf(tree, p) == IF IsSome(tree[p]) THEN Some(BlobSha(Get(tree[p]))) ELSE None

\* outcomes of a gateway call: the remote serves the request ("ok"), answers
\* with a non-success status for a reason of its own such as permissions or
\* rate limits ("notok"), or the request itself fails and fetch rejects
\* ("throw")
GatewayOutcomes == IF env.faults THEN {"ok", "notok", "throw"} ELSE {"ok"}

\* a remote that accepts a PUT whatever marker it carries
PutAccepted_AnyMarker(p, sha, outcome) == outcome = "ok"

\* PUT contents: accepted when the marker sent is the path's current marker
\* (no marker: the path must not exist)
PutAccepted(p, sha, outcome) == outcome = "ok" /\ sha = MarkerOf(HeadTree, p)

\* DELETE contents: accepted when the path exists under the marker sent
DeleteAccepted(p, sha, outcome) ==
    outcome = "ok" /\ IsSome(HeadTree[p]) /\ sha = MarkerOf(HeadTree, p)

\* the history after an accepted PUT: one commit changing one file
AfterPut(author, p, body) ==
    Append(history,
           [author |-> author,
            files |-> <<[filename |-> p,
                         status |-> IF IsSome(HeadTree[p]) THEN "modified"
                                    ELSE "added"]>>,
            tree |-> [HeadTree EXCEPT ![p] = Some(RemoteDecode(body))]])

\* the history after an accepted DELETE
AfterDelete(author, p) ==
    Append(history,
           [author |-> author,
            files |-> <<[filename |-> p, status |-> "removed"]>>,
            tree |-> [HeadTree EXCEPT ![p] = None]])

\* the blob paths of a tree, in tree order
BlobPaths(tree) ==
    SelectSeq(TreeOrder, LAMBDA p : p \in DOMAIN tree /\ IsSome(tree[p]))

\* a commit by another writer (an external edit, a concurrent run): it writes
\* or deletes one path, and changes it; env.during keeps the other writers
\* to the part of a code-agent run between its context load and its response
OtherWrite(p, c) ==
    /\ otherWrites < env.others
    /\ env.during => (pc \in {"generate", "apply_fetch", "apply_put"})
    /\ HeadTree[p] # c
    /\ history' = IF IsSome(c) THEN AfterPut("other", p, RemoteBody(Get(c)))
                  ELSE AfterDelete("other", p)
    /\ otherWrites' = otherWrites + 1
    /\ UNCHANGED <<env, client, backendOut, ai, agentVars, undoVars>>

OtherStep == \E p \in Paths : \E c \in {Some(COther), None} : OtherWrite(p, c)

----------------------------------------------------------------------------
(* getFileContent and commitFile *)

\* getFileContent: the decoded file with its marker, or null (absent) when the
\* response is not a success
GetFileContent(outcome, p) ==
    IF outcome = "ok" /\ p \in DOMAIN HeadTree /\ IsSome(HeadTree[p])
    THEN Some([path |-> p,
               content |-> Atob(StripNewlines(RemoteBody(Get(HeadTree[p])))),
               sha |-> BlobSha(Get(HeadTree[p]))])
    ELSE None

\* the request body commitFile sends
CommitBody(content) == Btoa(content)

----------------------------------------------------------------------------
(* Generation backend adapter: callAi and callLovableAi *)

\* attempt: the loop counter; waits: the backoff delays so far; primary, limited:
\* requests sent to the primary backend and rate-limit answers among them;
\* lovable, fallback: calls of callLovableAi and requests it sent; seen: the
\* statuses the primary backend answered with, in order; key: callLovableAi
\* found the fallback key
AiIdle == [pc |-> "idle", site |-> "none", attempt |-> 0, waits |-> <<>>,
           primary |-> 0, limited |-> 0, lovable |-> 0, fallback |-> 0,
           status |-> 0, seen |-> <<>>, key |-> FALSE]

\* a call entering callAi from a call site of the handler
NewCall(site) == [AiIdle EXCEPT !.pc = "fetch", !.site = site]

\* statuses of the primary backend
PrimaryStatuses == {200, 429, 401, 403, 500}

\* statuses of the fallback backend
FallbackStatuses == {200, 429, 402, 500}

\* a backoff that waits the same time before every retry
BackoffWait_Constant(attempt) == 2 * BackoffBaseMs

\* the wait before the retry that follows attempt number attempt
BackoffWait(attempt) == Pow2(attempt + 1) * BackoffBaseMs

\* a retry test that also waits after the last attempt
RetriesLeft_Inclusive(attempt) == attempt < maxRetries

\* whether a rate-limited attempt is retried on the primary backend
RetriesLeft(attempt) == attempt < maxRetries - 1

\* one fetch of the primary backend resolves with a status
AiPrimary(status, hasFallbackKey) ==
    /\ ai.pc = "fetch"
    /\ ai' = LET a == [ai EXCEPT !.primary = @ + 1,
                                 !.limited = IF status = 429 THEN @ + 1 ELSE @,
                                 !.seen = Append(@, status)]
             IN
             IF status = 200 THEN [a EXCEPT !.pc = "returned"]
             ELSE IF status = 429 THEN
                  IF RetriesLeft(ai.attempt)
                  THEN [a EXCEPT !.pc = "wait",
                                 !.waits = Append(@, BackoffWait(ai.attempt))]
                  ELSE IF hasFallbackKey
                       THEN [a EXCEPT !.pc = "fallback", !.lovable = @ + 1,
                                      !.key = TRUE]
                       ELSE [a EXCEPT !.pc = "thrown", !.lovable = @ + 1,
                                      !.status = 500]
             ELSE IF status = 401 \/ status = 403
                  THEN [a EXCEPT !.pc = "thrown", !.status = 401]
                  ELSE [a EXCEPT !.pc = "thrown", !.status = 500]
    /\ UNCHANGED <<env, client, backendOut, history, otherWrites, agentVars,
                   undoVars>>

\* the backoff timer fires and the loop continues with the next attempt; a
\* loop that runs out of attempts throws
AiBackoff ==
    /\ ai.pc = "wait"
    /\ ai' = IF ai.attempt + 1 < maxRetries
             THEN [ai EXCEPT !.pc = "fetch", !.attempt = @ + 1]
             ELSE [ai EXCEPT !.pc = "thrown", !.attempt = @ + 1, !.status = 500]
    /\ UNCHANGED <<env, client, backendOut, history, otherWrites, agentVars,
                   undoVars>>

\* the fetch of the fallback backend resolves with a status
AiFallback(status) ==
    /\ ai.pc = "fallback"
    /\ ai' = LET a == [ai EXCEPT !.fallback = @ + 1] IN
             IF status = 200 THEN [a EXCEPT !.pc = "returned"]
             ELSE IF status = 429 THEN [a EXCEPT !.pc = "thrown", !.status = 429]
             ELSE IF status = 402 THEN [a EXCEPT !.pc = "thrown", !.status = 402]
             ELSE [a EXCEPT !.pc = "thrown", !.status = 500]
    /\ UNCHANGED <<env, client, backendOut, history, otherWrites, agentVars,
                   undoVars>>

AdapterStep ==
    \/ \E status \in PrimaryStatuses : \E key \in BOOLEAN : AiPrimary(status, key)
    \/ AiBackoff
    \/ \E status \in FallbackStatuses : AiFallback(status)

----------------------------------------------------------------------------
(* The code-agent handler *)

\* no raw output is held: before the calls, and once a later step has used it
NoOutputs == [intent |-> None, selection |-> [kind |-> "none", val |-> <<>>],
              loads |-> <<>>]

NoResponse == [kind |-> "none", status |-> 0, tag |-> "none", path |-> "",
               files_changed |-> <<>>, commit_sha |-> NullSha]

\* a normal response {response, files_changed, commit_sha, commit_message};
\* tag names the response text, path the path the text names
OkResponse(tag, path, files, sha) ==
    [kind |-> "ok", status |-> 200, tag |-> tag, path |-> path,
     files_changed |-> files, commit_sha |-> sha]

\* a tagged error {error} with a non-success status
ErrorResponse(status) ==
    [kind |-> "error", status |-> status, tag |-> "error", path |-> "",
     files_changed |-> <<>>, commit_sha |-> NullSha]

\* a catch that answers every error with the generic status
CatchStatus_Generic(status) == 500

\* e?.status || 500 of the handler's catch
CatchStatus(status) == IF status = 0 THEN 500 ELSE status

\* outputs of the classifier: "code", " Code\n", "chat", "code.", and an empty
\* or missing text
IntentOutputs == {CodeToken, <<SP, 67, 111, 100, 101, NL>>, <<99, 104, 97, 116>>,
                  <<99, 111, 100, 101, 46>>, <<>>}

\* a normalisation that keeps the case of the classifier's output
NormalizeIntent_KeepCase(raw) == Trim(raw)

\* (content || "").trim().toLowerCase()
NormalizeIntent(raw) == ToLowerCase(Trim(raw))

\* a classifier test that accepts every text starting with the token
IsCodeIntent_StartsWith(text) ==
    Len(text) >= Len(CodeToken) /\ SubSeq(text, 1, Len(CodeToken)) = CodeToken

\* intent !== "code" is the chat branch
IsCodeIntent(text) == text = CodeToken

\* the request arrives; the profile lookup finds the user's key or not
AgentStart(hasKey) ==
    /\ pc = "idle"
    /\ upc \in {"idle", "done"}
    /\ ai.pc = "idle"
    /\ IF hasKey
       THEN /\ pc' = "intent"
            /\ ai' = NewCall("intent")
            /\ UNCHANGED response
       ELSE /\ pc' = "done"
            /\ response' = ErrorResponse(400)
            /\ UNCHANGED ai
    /\ UNCHANGED <<env, client, backendOut, history, otherWrites, intent,
                   allFiles, selectedFiles, pending, fileContents, parsed,
                   idx, freshFile, freshAt, lastCommitSha, filesChanged,
                   errors, putLog, undoVars>>

\* the classifier call returned: chat mode or code mode
IntentDone(raw) ==
    /\ pc = "intent"
    /\ ai.pc = "returned"
    /\ intent' = NormalizeIntent(raw)
    /\ backendOut' = [backendOut EXCEPT !.intent = Some(raw)]
    /\ IF IsCodeIntent(intent')
       THEN pc' = "branch" /\ ai' = AiIdle
       ELSE pc' = "chat" /\ ai' = NewCall("chat")
    /\ UNCHANGED <<env, client, history, otherWrites, allFiles, selectedFiles,
                   pending, fileContents, parsed, idx, freshFile, freshAt,
                   lastCommitSha, filesChanged, errors, response, putLog,
                   undoVars>>

\* the chat call returned: the conversational reply
ChatDone ==
    /\ pc = "chat"
    /\ ai.pc = "returned"
    /\ pc' = "done"
    /\ ai' = AiIdle
    /\ response' = OkResponse("chat", "", <<>>, NullSha)
    /\ UNCHANGED <<env, client, backendOut, history, otherWrites, intent,
                   allFiles, selectedFiles, pending, fileContents, parsed,
                   idx, freshFile, freshAt, lastCommitSha, filesChanged,
                   errors, putLog, undoVars>>

\* an adapter call threw: the handler's catch answers with a tagged error
AgentCatchAi ==
    /\ pc \in {"intent", "chat", "select", "generate"}
    /\ ai.pc = "thrown"
    /\ pc' = "done"
    /\ ai' = AiIdle
    /\ response' = ErrorResponse(CatchStatus(ai.status))
    /\ UNCHANGED <<env, client, backendOut, history, otherWrites, intent,
                   allFiles, selectedFiles, pending, fileContents, parsed,
                   idx, freshFile, freshAt, lastCommitSha, filesChanged,
                   errors, putLog, undoVars>>

\* getDefaultBranch
BranchDone(outcome) ==
    /\ pc = "branch"
    /\ IF outcome = "ok"
       THEN pc' = "tree" /\ UNCHANGED response
       ELSE pc' = "done" /\ response' = ErrorResponse(500)
    /\ backendOut' = NoOutputs
    /\ UNCHANGED <<env, client, history, otherWrites, ai, intent, allFiles,
                   selectedFiles, pending, fileContents, parsed, idx,
                   freshFile, freshAt, lastCommitSha, filesChanged, errors,
                   putLog, undoVars>>

\* getRepoTree, the blob filter, and the start of the selection call
TreeDone(outcome) ==
    /\ pc = "tree"
    /\ IF outcome = "ok"
       THEN /\ pc' = "select"
            /\ allFiles' = BlobPaths(HeadTree)
            /\ ai' = NewCall("select")
            /\ UNCHANGED response
       ELSE /\ pc' = "done"
            /\ response' = ErrorResponse(500)
            /\ UNCHANGED <<allFiles, ai>>
    /\ UNCHANGED <<env, client, backendOut, history, otherWrites, intent,
                   selectedFiles, pending, fileContents, parsed, idx,
                   freshFile, freshAt, lastCommitSha, filesChanged, errors,
                   putLog, undoVars>>

\* outputs of the selector's backend after the fence strip: text that is no
\* JSON, a JSON array of paths, JSON that is no array (null, an object, a
\* number)
SelectionOutputs ==
    {[kind |-> "text", val |-> <<>>],
     [kind |-> "array", val |-> <<>>],
     [kind |-> "array", val |-> <<"ghost.ts", "package.json">>],
     [kind |-> "null", val |-> <<>>],
     [kind |-> "object", val |-> <<>>],
     [kind |-> "number", val |-> <<>>]}

\* the parsed value makes the handler throw: null has no length to read, and
\* an object or a number has a length other than 0 and no filter method
SelectionThrows(out) == out.kind \in {"null", "object", "number"}

\* a fallback that takes the first paths of the listing, whatever they end with
FallbackSelection_AnyExt(all) == Slice0(all, FallbackCap)

\* the deterministic fallback: the first paths with an allow-listed extension
FallbackSelection(all) ==
    Slice0(SelectSeq(all, LAMBDA f : Includes(codeExts, PathExt[f])),
           FallbackCap)

\* the selection before the tree filter: the parsed array, or the fallback
\* when nothing was parsed or the array is empty
ChosenFiles(out, all) ==
    LET parsedSel == IF out.kind = "array" THEN out.val ELSE <<>> IN
    IF Len(parsedSel) = 0 THEN FallbackSelection(all) ELSE parsedSel

\* a selection that is not filtered against the tree
SelectFiles_Unfiltered(out, all) == ChosenFiles(out, all)

\* selectedFiles.filter(f => allFiles.includes(f))
SelectFiles(out, all) ==
    SelectSeq(ChosenFiles(out, all), LAMBDA f : Includes(all, f))

\* the selection call returned: parse, fall back, filter, and fan out the loads
SelectDone(out) ==
    /\ pc = "select"
    /\ ai.pc = "returned"
    /\ backendOut' = [backendOut EXCEPT !.selection = out]
    /\ IF SelectionThrows(out)
       THEN /\ pc' = "done"
            /\ ai' = AiIdle
            /\ response' = ErrorResponse(500)
            /\ UNCHANGED <<selectedFiles, pending>>
       ELSE /\ selectedFiles' = SelectFiles(out, allFiles)
            /\ pending' = 1..Len(selectedFiles')
            /\ IF selectedFiles' = <<>>
               THEN pc' = "generate" /\ ai' = NewCall("code")
               ELSE pc' = "load" /\ ai' = AiIdle
            /\ UNCHANGED response
    /\ UNCHANGED <<env, client, history, otherWrites, intent, allFiles,
                   fileContents, parsed, idx, freshFile, freshAt,
                   lastCommitSha, filesChanged, errors, putLog, undoVars>>

\* file && file.content.length < 20000
Loadable(file) == IsSome(file) /\ Len(Get(file).content) < ContentCeiling

\* one of the parallel loads completes; the last one to complete starts the
\* generation call; env.loads tells whether the remote may refuse a load
LoadFile(i, outcome) ==
    /\ pc = "load"
    /\ i \in pending
    /\ outcome # "throw"
    /\ outcome = "notok" => env.loads
    /\ backendOut' = [backendOut EXCEPT
                        !.loads = Append(@, [path |-> selectedFiles[i],
                                             outcome |-> outcome])]
    /\ LET file == GetFileContent(outcome, selectedFiles[i]) IN
       fileContents' = IF Loadable(file) THEN Append(fileContents, Get(file))
                       ELSE fileContents
    /\ pending' = pending \ {i}
    /\ IF pending' = {}
       THEN pc' = "generate" /\ ai' = NewCall("code")
       ELSE UNCHANGED <<pc, ai>>
    /\ UNCHANGED <<env, client, history, otherWrites, intent,
                   allFiles, selectedFiles, parsed, idx, freshFile, freshAt,
                   lastCommitSha, filesChanged, errors, response, putLog,
                   undoVars>>

\* a load whose request fails rejects Promise.all: the handler's catch answers
LoadThrow(i) ==
    /\ pc = "load"
    /\ i \in pending
    /\ "throw" \in GatewayOutcomes
    /\ pc' = "done"
    /\ pending' = pending \ {i}
    /\ backendOut' = [backendOut EXCEPT
                        !.loads = Append(@, [path |-> selectedFiles[i],
                                             outcome |-> "throw"])]
    /\ response' = ErrorResponse(500)
    /\ UNCHANGED <<env, client, history, otherWrites, ai, intent,
                   allFiles, selectedFiles, fileContents, parsed, idx,
                   freshFile, freshAt, lastCommitSha, filesChanged, errors,
                   putLog, undoVars>>

----------------------------------------------------------------------------
(* Change sets, the safety check and the apply loop *)

\* file edits the generator may return: a path ("" when missing or empty) and
\* an optional content
EditPool ==
    {[path |-> "package.json", content |-> Some(CEmpty)],
     [path |-> "package.json", content |-> None],
     [path |-> "package.json", content |-> Some(CNine)],
     [path |-> "package.json", content |-> Some(CNew)],
     [path |-> "a.ts", content |-> Some(CNew)],
     [path |-> "a.ts", content |-> None],
     [path |-> "", content |-> Some(CNew)]}

\* the ordered edit lists of at most MaxChanges edits
ChangeSets == UNION {[1..n -> EditPool] : n \in 1..MaxChanges}

\* outputs of the generator's backend after the fence strip: text that is no
\* JSON, JSON null, a JSON number, string or boolean (its changes property is
\* undefined), an object with changes (none when missing or empty)
GeneratorOutputs ==
    {[kind |-> "text", changes |-> <<>>], [kind |-> "null", changes |-> <<>>],
     [kind |-> "scalar", changes |-> <<>>]}
    \cup {[kind |-> "object", changes |-> cs] : cs \in ChangeSets \cup {<<>>}}

\* !change.content
NoContent(content) == ~IsSome(content) \/ Get(content) = <<>>

\* a safety check that measures the content without trimming it
Offends_NoTrim(change) ==
    /\ Includes(criticalFiles, change.path)
    /\ \/ NoContent(change.content)
       \/ Len(Get(change.content)) < MinCriticalLength

\* the safety check's condition on one edit
Offends(change) ==
    /\ Includes(criticalFiles, change.path)
    /\ \/ NoContent(change.content)
       \/ Len(Trim(Get(change.content))) < MinCriticalLength

\* the first edit the safety check rejects, 0 when there is none
FirstOffender(changes) ==
    IF \E i \in 1..Len(changes) : Offends(changes[i])
    THEN CHOOSE i \in 1..Len(changes) :
            /\ Offends(changes[i])
            /\ \A j \in 1..(i - 1) : ~Offends(changes[j])
    ELSE 0

\* !change.path || !change.content makes the apply loop skip the edit
Skipped(change) == change.path = "" \/ NoContent(change.content)

\* the first edit after position i that the apply loop does not skip
NextEdit(changes, i) ==
    IF \E j \in (i + 1)..Len(changes) : ~Skipped(changes[j])
    THEN CHOOSE j \in (i + 1)..Len(changes) :
            /\ ~Skipped(changes[j])
            /\ \A k \in (i + 1)..(j - 1) : Skipped(changes[k])
    ELSE Len(changes) + 1

\* an assembly that adds no warning block to the success text
AssembleTag_NoWarning(changed, errs) ==
    IF Len(changed) > 0 THEN "applied"
    ELSE IF Len(errs) > 0 THEN "failed" ELSE "generic"

\* an assembly that reports success whenever no edit failed
AssembleTag_NoErrorIsSuccess(changed, errs) ==
    IF Len(errs) = 0 THEN "applied"
    ELSE IF Len(changed) > 0 THEN "applied_warned" ELSE "failed"

\* the response text assembled from the two lists
AssembleTag(changed, errs) ==
    IF Len(changed) > 0
    THEN IF Len(errs) > 0 THEN "applied_warned" ELSE "applied"
    ELSE IF Len(errs) > 0 THEN "failed" ELSE "generic"

\* an apply loop that stops at the first failed edit
ApplyContinue_StopOnError(j, changed, errs, last) ==
    /\ idx' = j
    /\ filesChanged' = changed
    /\ errors' = errs
    /\ lastCommitSha' = last
    /\ IF j > Len(parsed'.changes) \/ Len(errs) > 0
       THEN /\ pc' = "done"
            /\ response' = OkResponse(AssembleTag(changed, errs), "", changed, last)
       ELSE /\ pc' = "apply_fetch"
            /\ UNCHANGED response

\* the loop moves to edit j, or leaves the loop and answers
ApplyContinue(j, changed, errs, last) ==
    /\ idx' = j
    /\ filesChanged' = changed
    /\ errors' = errs
    /\ lastCommitSha' = last
    /\ IF j > Len(parsed'.changes)
       THEN /\ pc' = "done"
            /\ response' = OkResponse(AssembleTag(changed, errs), "", changed, last)
       ELSE /\ pc' = "apply_fetch"
            /\ UNCHANGED response

\* the generation call returned: parse, the empty check, the safety check, and
\* the entry into the apply loop
GenerateDone(out) ==
    /\ pc = "generate"
    /\ ai.pc = "returned"
    /\ ai' = AiIdle
    /\ backendOut' = NoOutputs
    /\ IF out.kind = "text"
       THEN /\ pc' = "done"
            /\ response' = OkResponse("apology", "", <<>>, NullSha)
            /\ parsed' = [kind |-> out.kind, changes |-> <<>>]
            /\ UNCHANGED <<idx, filesChanged, errors, lastCommitSha>>
       ELSE IF out.kind = "null"
       THEN /\ pc' = "done"
            /\ response' = ErrorResponse(500)
            /\ parsed' = [kind |-> out.kind, changes |-> <<>>]
            /\ UNCHANGED <<idx, filesChanged, errors, lastCommitSha>>
       ELSE /\ parsed' = [kind |-> out.kind, changes |-> out.changes]
            /\ IF Len(out.changes) = 0
               THEN /\ pc' = "done"
                    /\ response' = OkResponse("noop", "", <<>>, NullSha)
                    /\ UNCHANGED <<idx, filesChanged, errors, lastCommitSha>>
               ELSE IF FirstOffender(out.changes) # 0
               THEN /\ pc' = "done"
                    /\ response' =
                         OkResponse("critical",
                                    out.changes[FirstOffender(out.changes)].path,
                                    <<>>, NullSha)
                    /\ UNCHANGED <<idx, filesChanged, errors, lastCommitSha>>
               ELSE ApplyContinue(NextEdit(out.changes, 0), <<>>, <<>>, NullSha)
    /\ UNCHANGED <<env, client, history, otherWrites, intent, allFiles,
                   selectedFiles, pending, fileContents, freshFile, freshAt,
                   putLog, undoVars>>

\* who made the latest commit that changed path p
RECURSIVE LastAuthor(_, _)
LastAuthor(k, p) ==
    IF k = 1 \/ \E i \in 1..Len(history[k].files) :
                   history[k].files[i].filename = p
    THEN history[k].author
    ELSE LastAuthor(k - 1, p)

\* an author committed to path p after the history had length n
Touched(author, p, n) ==
    \E k \in (n + 1)..Len(history) :
        /\ history[k].author = author
        /\ \E i \in 1..Len(history[k].files) : history[k].files[i].filename = p

\* one entry of the log of the apply loop's gateway calls: the edit, whether a
\* PUT was sent and with which marker, the blob the fresh fetch returned, the
\* path's blob before and after the call and who wrote the one before, whether
\* another writer committed to the path since the fresh fetch, whether the
\* remote accepted the write, and how many paths the handler then pushed on
\* the changed-paths list
LogEntry(i, p, put, sha, fresh, before, after, accepted, pushed) ==
    [idx |-> i, path |-> p, put |-> put, sha |-> sha, fresh |-> fresh,
     before |-> before, by |-> LastAuthor(Len(history), p),
     raced |-> put /\ Touched("other", p, freshAt),
     after |-> after, accepted |-> accepted, pushed |-> pushed]

\* the fresh getFileContent of the current edit
ApplyFetch(outcome) ==
    /\ pc = "apply_fetch"
    /\ LET change == parsed.changes[idx] IN
       IF outcome = "throw"
       THEN /\ putLog' = Append(putLog,
                                LogEntry(idx, change.path, FALSE, None, None,
                                         HeadTree[change.path],
                                         HeadTree[change.path], FALSE, 0))
            /\ UNCHANGED <<parsed, freshFile, freshAt>>
            /\ ApplyContinue(NextEdit(parsed.changes, idx), filesChanged,
                             Append(errors, change.path), lastCommitSha)
       ELSE /\ freshFile' = GetFileContent(outcome, change.path)
            /\ freshAt' = Len(history)
            /\ pc' = "apply_put"
            /\ UNCHANGED <<parsed, idx, filesChanged, errors, lastCommitSha,
                           response, putLog>>
    /\ UNCHANGED <<env, client, backendOut, history, otherWrites, ai, intent,
                   allFiles, selectedFiles, pending, fileContents, undoVars>>

\* a marker taken from the file the context load fetched for the edit's path
FreshMarker_FromContext(file) ==
    LET p == parsed.changes[idx].path
        loaded == SelectSeq(fileContents, LAMBDA f : f.path = p)
    IN IF Len(loaded) > 0 THEN Some(loaded[1].sha) ELSE None

\* a marker that is left out when the edit declares a creation
FreshMarker_ByAction(file) ==
    IF IsSome(file) /\ parsed.changes[idx].action # "create"
    THEN Some(Get(file).sha) ELSE None

\* freshFile?.sha || null
FreshMarker(file) == IF IsSome(file) THEN Some(Get(file).sha) ELSE None

\* commitFile for the current edit, and the rest of the loop body; freshFile
\* is local to the iteration and is gone at its end
ApplyPut(outcome) ==
    /\ pc = "apply_put"
    /\ LET change == parsed.changes[idx]
           sha == FreshMarker(freshFile)
           accepted == PutAccepted(change.path, sha, outcome)
           fresh == IF IsSome(freshFile) THEN Some(Get(freshFile).content)
                    ELSE None
           after == IF accepted
                    THEN Some(RemoteDecode(CommitBody(Get(change.content))))
                    ELSE HeadTree[change.path]
       IN
       /\ history' = IF accepted
                     THEN AfterPut("agent", change.path,
                                   CommitBody(Get(change.content)))
                     ELSE history
       /\ putLog' = Append(putLog,
                           LogEntry(idx, change.path, TRUE, sha, fresh,
                                    HeadTree[change.path], after, accepted,
                                    IF accepted THEN 1 ELSE 0))
       /\ freshFile' = None
       /\ freshAt' = 0
       /\ UNCHANGED parsed
       /\ IF accepted
          THEN ApplyContinue(NextEdit(parsed.changes, idx),
                             Append(filesChanged, change.path), errors,
                             Len(history'))
          ELSE ApplyContinue(NextEdit(parsed.changes, idx), filesChanged,
                             Append(errors, change.path), lastCommitSha)
    /\ UNCHANGED <<env, client, backendOut, otherWrites, ai, intent, allFiles,
                   selectedFiles, pending, fileContents, undoVars>>

AgentStep ==
    \/ \E hasKey \in BOOLEAN : AgentStart(hasKey)
    \/ \E raw \in IntentOutputs : IntentDone(raw)
    \/ ChatDone
    \/ AgentCatchAi
    \/ \E outcome \in GatewayOutcomes : BranchDone(outcome)
    \/ \E outcome \in GatewayOutcomes : TreeDone(outcome)
    \/ \E out \in SelectionOutputs : SelectDone(out)
    \/ \E i \in pending : \E outcome \in GatewayOutcomes : LoadFile(i, outcome)
    \/ \E i \in pending : LoadThrow(i)
    \/ \E out \in GeneratorOutputs : GenerateDone(out)
    \/ \E outcome \in GatewayOutcomes : ApplyFetch(outcome)
    \/ \E outcome \in GatewayOutcomes : ApplyPut(outcome)

----------------------------------------------------------------------------
(* The undo-commit handler *)

\* {success: true, files_reverted}
UndoOk(reverted) ==
    [kind |-> "ok", status |-> 200, tag |-> "reverted", path |-> "",
     files_changed |-> reverted, commit_sha |-> NullSha]

\* GET commit detail: the parent identifier (none for the first commit) and
\* the per-file status list
CommitDetail(sha) == [parent |-> sha - 1, files |-> history[sha].files]

\* where the loop body of a file starts: "added" fetches the current file,
\* any other status fetches the file at the parent revision
UndoEntry(file) == IF file.status = "added" THEN "current" ELSE "parent"

\* a loop that ends at the first file it did not revert
UndoContinue_StopAtFailure(j, reverted) ==
    /\ uidx' = j
    /\ filesReverted' = reverted
    /\ IF j > Len(ucommit'.files) \/ Len(reverted) < j - 1
       THEN /\ upc' = "done"
            /\ uresponse' = UndoOk(reverted)
       ELSE /\ upc' = UndoEntry(ucommit'.files[j])
            /\ UNCHANGED uresponse

\* the loop moves to file j, or leaves the loop and answers
UndoContinue(j, reverted) ==
    /\ uidx' = j
    /\ filesReverted' = reverted
    /\ IF j > Len(ucommit'.files)
       THEN /\ upc' = "done"
            /\ uresponse' = UndoOk(reverted)
       ELSE /\ upc' = UndoEntry(ucommit'.files[j])
            /\ UNCHANGED uresponse

\* the request arrives; a missing parameter (a null commit identifier here)
\* throws
UndoStart(sha) ==
    /\ upc = "idle"
    /\ pc \in {"idle", "done"}
    /\ sha \in 0..Len(history)
    /\ ureq' = [commit_sha |-> sha, at |-> Len(history)]
    /\ IF sha = NullSha
       THEN upc' = "done" /\ uresponse' = ErrorResponse(500)
       ELSE upc' = "commit" /\ UNCHANGED uresponse
    /\ UNCHANGED <<env, client, backendOut, history, otherWrites, ai,
                   agentVars, ucommit, uidx, uparent, ucurrent, filesReverted,
                   ulog>>

\* one entry of the log of the undo handler's gateway calls: the call, how
\* the request went, whether the remote found the file (a read) or accepted
\* the change (a write or delete), and the path's blob before and after
UndoLogEntry(p, call, outcome, ok, before, after) ==
    [path |-> p, call |-> call, outcome |-> outcome, ok |-> ok,
     before |-> before, after |-> after]

\* a parent check that lets every commit through
NoParent_Never(detail) == FALSE

\* !parentSha
NoParent(detail) == detail.parent = NullSha

\* the commit detail arrives: the parent check, and the entry into the loop
UndoCommit(outcome) ==
    /\ upc = "commit"
    /\ ulog' = Append(ulog, UndoLogEntry("", "get_commit", outcome,
                                         outcome = "ok", None, None))
    /\ IF outcome # "ok" \/ NoParent(CommitDetail(ureq.commit_sha))
       THEN /\ upc' = "done"
            /\ uresponse' = ErrorResponse(500)
            /\ UNCHANGED <<ucommit, uidx, filesReverted>>
       ELSE /\ ucommit' = CommitDetail(ureq.commit_sha)
            /\ UndoContinue(1, <<>>)
    /\ UNCHANGED <<env, client, backendOut, history, otherWrites, ai,
                   agentVars, ureq, uparent, ucurrent>>

\* the file at the parent revision: its base64 body, when the fetch succeeds
UndoFetchParent(outcome) ==
    /\ upc = "parent"
    /\ LET file == ucommit.files[uidx]
           blob == history[ucommit.parent].tree[file.filename]
       IN
       /\ ulog' = Append(ulog,
                         UndoLogEntry(file.filename, "get_parent", outcome,
                                      outcome = "ok" /\ IsSome(blob),
                                      HeadTree[file.filename],
                                      HeadTree[file.filename]))
       /\ IF outcome = "ok" /\ IsSome(blob)
          THEN /\ uparent' = Some(RemoteBody(Get(blob)))
               /\ upc' = "current"
               /\ UNCHANGED <<ucommit, uidx, filesReverted, uresponse>>
          ELSE /\ UNCHANGED <<ucommit, uparent>>
               /\ UndoContinue(uidx + 1, filesReverted)
    /\ UNCHANGED <<env, client, backendOut, history, otherWrites, ai,
                   agentVars, ureq, ucurrent>>

\* a marker taken from the file as the undone commit left it
CurrentMarker_FromCommit(p) == MarkerOf(history[ureq.commit_sha].tree, p)

\* currentData.sha: the marker of the file the fetch of the current path
\* returned
CurrentMarker(p) == MarkerOf(HeadTree, p)

\* the current file: its marker, when the fetch succeeds
UndoFetchCurrent(outcome) ==
    /\ upc = "current"
    /\ LET file == ucommit.files[uidx] IN
       /\ ulog' = Append(ulog,
                         UndoLogEntry(file.filename, "get_current", outcome,
                                      outcome = "ok"
                                        /\ IsSome(HeadTree[file.filename]),
                                      HeadTree[file.filename],
                                      HeadTree[file.filename]))
       /\ IF outcome = "ok" /\ IsSome(HeadTree[file.filename])
          THEN /\ ucurrent' = CurrentMarker(file.filename)
               /\ upc' = IF file.status = "added" THEN "delete" ELSE "put"
               /\ UNCHANGED <<ucommit, uidx, filesReverted, uresponse>>
          ELSE /\ UNCHANGED <<ucommit, ucurrent>>
               /\ UndoContinue(uidx + 1, filesReverted)
    /\ UNCHANGED <<env, client, backendOut, history, otherWrites, ai,
                   agentVars, ureq, uparent>>


\* what the handler does with the answer of its DELETE or PUT: the path is
\* pushed whatever the answer's status
UndoPushed(reverted, p, accepted) == Append(reverted, p)

\* DELETE of a file the commit added
UndoDelete(outcome) ==
    /\ upc = "delete"
    /\ LET p == ucommit.files[uidx].filename
           accepted == DeleteAccepted(p, ucurrent, outcome)
       IN
       /\ history' = IF accepted THEN AfterDelete("undo", p) ELSE history
       /\ ulog' = Append(ulog,
                         UndoLogEntry(p, "delete",
                                      outcome,
                                      accepted, HeadTree[p],
                                      IF accepted THEN None ELSE HeadTree[p]))
       /\ UNCHANGED ucommit
       /\ UndoContinue(uidx + 1,
                       IF outcome = "throw" THEN filesReverted
                       ELSE UndoPushed(filesReverted, p, accepted))
    /\ UNCHANGED <<env, client, backendOut, otherWrites, ai, agentVars, ureq,
                   uparent, ucurrent>>

\* the body of the handler's PUT: the parent body with its line feeds removed
UndoBody(body) == StripNewlines(body)

\* PUT of the parent content over the current marker
UndoPut(outcome) ==
    /\ upc = "put"
    /\ LET p == ucommit.files[uidx].filename
           body == UndoBody(Get(uparent))
           accepted == PutAccepted(p, ucurrent, outcome)
       IN
       /\ history' = IF accepted THEN AfterPut("undo", p, body) ELSE history
       /\ ulog' = Append(ulog,
                         UndoLogEntry(p, "put",
                                      outcome,
                                      accepted, HeadTree[p],
                                      IF accepted THEN Some(RemoteDecode(body))
                                      ELSE HeadTree[p]))
       /\ UNCHANGED ucommit
       /\ UndoContinue(uidx + 1,
                       IF outcome = "throw" THEN filesReverted
                       ELSE UndoPushed(filesReverted, p, accepted))
    /\ UNCHANGED <<env, client, backendOut, otherWrites, ai, agentVars, ureq,
                   uparent, ucurrent>>

UndoStep ==
    \/ \E sha \in 0..Len(history) : UndoStart(sha)
    \/ \E outcome \in GatewayOutcomes : UndoCommit(outcome)
    \/ \E outcome \in GatewayOutcomes : UndoFetchParent(outcome)
    \/ \E outcome \in GatewayOutcomes : UndoFetchCurrent(outcome)
    \/ \E outcome \in GatewayOutcomes : UndoDelete(outcome)
    \/ \E outcome \in GatewayOutcomes : UndoPut(outcome)

----------------------------------------------------------------------------
(* The chat client: agent_commits records, sendMessage, undoLastCommit *)

\* the client after construction. rows: the agent_commits table, a record's id
\* is its position; commits: the component's copy of the table, newest first;
\* loading: the rows read by the queries of loadCommits in flight (queries
\* that read the same rows store the same copy);
\* isLoading, isUndoing: the component's flags; undoable: the record
\* undoLastCommit picked and the position of the endpoint's answer in log;
\* log: inserts, answers of the undo endpoint and updates, in order;
\* phase: where sendMessage stands: "idle", waiting for the user lookup
\* ("lookup"), waiting for the code-agent endpoint ("request"), or left by an
\* exception thrown before its try block ("thrown")
ClientInit ==
    [mounted |-> FALSE, rows |-> <<>>, commits |-> <<>>, loading |-> {},
     isLoading |-> FALSE, isUndoing |-> FALSE, updating |-> FALSE,
     undoable |-> [id |-> 0, commit_sha |-> NullSha, answer |-> 0],
     sends |-> 0, undos |-> 0, log |-> <<>>, phase |-> "idle"]

\* can_undo BOOLEAN NOT NULL DEFAULT true: an insert that names no flag
DefaultCanUndo == TRUE

\* .order("created_at", { ascending: false }): the rows read, newest first
LoadedRows(rows) ==
    [i \in 1..Len(rows) |->
        [id |-> Len(rows) + 1 - i,
         commit_sha |-> rows[Len(rows) + 1 - i].commit_sha,
         can_undo |-> rows[Len(rows) + 1 - i].can_undo]]

\* commits.find((c) => c.can_undo): the first such record of the copy, 0 if none
RECURSIVE FindUndoable(_, _)
FindUndoable(commits, i) ==
    IF i > Len(commits) THEN 0
    ELSE IF commits[i].can_undo THEN i
    ELSE FindUndoable(commits, i + 1)

\* a client that treats every answer of the undo endpoint as a success
RespOk_Always(outcome) == TRUE

\* resp.ok of an answer; a fetch that throws has none
RespOk(outcome) == outcome = "ok"

\* loadCommits sends its query, which reads the table
LoadCommits(c) == [c EXCEPT !.loading = @ \cup {LoadedRows(c.rows)}]

\* the effect on mount calls loadCommits
ClientMount ==
    /\ ~client.mounted
    /\ client' = LoadCommits([client EXCEPT !.mounted = TRUE])
    /\ UNCHANGED <<env, backendOut, history, otherWrites, ai, agentVars,
                   undoVars>>

\* a query of loadCommits resolves, in any order, and setCommits stores it
LoadCommitsDone(loaded) ==
    /\ loaded \in client.loading
    /\ client' = [client EXCEPT !.commits = loaded, !.loading = @ \ {loaded}]
    /\ UNCHANGED <<env, backendOut, history, otherWrites, ai, agentVars,
                   undoVars>>

\* sendMessage with a non-empty input while no send is in flight: the flag
\* is set, and the user lookup is sent
SendMessage ==
    /\ client.mounted
    /\ ~client.isLoading
    /\ client.sends + client.undos < MaxClientCalls
    /\ client' = [client EXCEPT !.isLoading = TRUE, !.sends = @ + 1,
                                !.phase = "lookup"]
    /\ UNCHANGED <<env, backendOut, history, otherWrites, ai, agentVars,
                   undoVars>>

\* the user lookup answers, before the try block: with a user, the message is
\* stored and the request is sent; with none, user!.id throws out of
\* sendMessage and the finally block is never reached
SendLookup(found) ==
    /\ client.isLoading
    /\ client.phase = "lookup"
    /\ client' = [client EXCEPT !.phase = IF found THEN "request" ELSE "thrown"]
    /\ UNCHANGED <<env, backendOut, history, otherWrites, ai, agentVars,
                   undoVars>>

\* the code-agent endpoint answers: an error, a response with no commit, or a
\* response with the id of a new commit, which is inserted with no flag named
SendDone(outcome) ==
    /\ client.isLoading
    /\ client.phase = "request"
    /\ client' =
         IF outcome = "commit"
         THEN LET sha == Len(client.rows) + 1
                  id == Len(client.rows) + 1
              IN LoadCommits(
                   [client EXCEPT
                      !.isLoading = FALSE,
                      !.phase = "idle",
                      !.rows = Append(@, [commit_sha |-> sha,
                                          can_undo |-> DefaultCanUndo]),
                      !.log = Append(@, [op |-> "insert", id |-> id,
                                         commit_sha |-> sha, ok |-> TRUE,
                                         before |-> FALSE,
                                         after |-> DefaultCanUndo,
                                         answer |-> 0])])
         ELSE [client EXCEPT !.isLoading = FALSE, !.phase = "idle"]
    /\ UNCHANGED <<env, backendOut, history, otherWrites, ai, agentVars,
                   undoVars>>

\* a client that takes every answer as carrying a commit id
HasCommitSha_Always(sha) == TRUE

\* if (data.commit_sha): the answer names a commit
HasCommitSha(sha) == sha # NullSha

\* the code-agent handler's answer reaches sendMessage, or the fetch throws:
\* an answer that is not ok throws; an answer that names a commit is inserted
\* in agent_commits under that id, and loadCommits is called
SendAnswered(delivered) ==
    /\ client.isLoading
    /\ client.phase = "request"
    /\ pc = "done"
    /\ client' =
         LET received == delivered /\ response.status = 200
             logged == Append(client.log,
                              [op |-> "received", id |-> 0,
                               commit_sha |-> response.commit_sha,
                               ok |-> received, before |-> FALSE,
                               after |-> FALSE, answer |-> 0])
         IN
         IF received /\ HasCommitSha(response.commit_sha)
         THEN LoadCommits(
                [client EXCEPT
                   !.isLoading = FALSE,
                   !.phase = "idle",
                   !.rows = Append(@, [commit_sha |-> response.commit_sha,
                                       can_undo |-> DefaultCanUndo]),
                   !.log = Append(logged,
                                  [op |-> "insert", id |-> Len(client.rows) + 1,
                                   commit_sha |-> response.commit_sha,
                                   ok |-> TRUE, before |-> FALSE,
                                   after |-> DefaultCanUndo, answer |-> 0])])
         ELSE [client EXCEPT !.isLoading = FALSE, !.phase = "idle",
                             !.log = logged]
    /\ UNCHANGED <<env, backendOut, history, otherWrites, ai, agentVars,
                   undoVars>>

\* undoLastCommit: the button is enabled while the copy holds an undoable
\* record and no undo is in flight; the request names that record's commit
UndoLastCommit ==
    /\ client.mounted
    /\ ~client.isUndoing
    /\ client.sends + client.undos < MaxClientCalls
    /\ FindUndoable(client.commits, 1) # 0
    /\ client' =
         LET c == client.commits[FindUndoable(client.commits, 1)] IN
         [client EXCEPT !.isUndoing = TRUE, !.undos = @ + 1,
                        !.undoable = [id |-> c.id, commit_sha |-> c.commit_sha,
                                      answer |-> 0]]
    /\ UNCHANGED <<env, backendOut, history, otherWrites, ai, agentVars,
                   undoVars>>

\* the undo endpoint answers, or the fetch throws; an answer that is not ok
\* throws, and the catch block only shows a toast
UndoAnswered(outcome) ==
    /\ client.isUndoing
    /\ ~client.updating
    /\ client' =
         LET logged == Append(client.log,
                              [op |-> "answer", id |-> client.undoable.id,
                               commit_sha |-> client.undoable.commit_sha,
                               ok |-> outcome = "ok", before |-> FALSE,
                               after |-> FALSE, answer |-> 0])
         IN
         IF RespOk(outcome)
         THEN [client EXCEPT !.log = logged, !.updating = TRUE,
                             !.undoable.answer = Len(logged)]
         ELSE [client EXCEPT !.log = logged, !.isUndoing = FALSE]
    /\ UNCHANGED <<env, backendOut, history, otherWrites, ai, agentVars,
                   undoVars>>

\* update({ can_undo: false }).eq("id", undoable.id) resolves, applied or
\* refused by the database (a refusal is returned, not thrown); loadCommits
\* follows either way
UndoUpdate(applied) ==
    /\ client.isUndoing
    /\ client.updating
    /\ client' =
         LET id == client.undoable.id IN
         LoadCommits(
           [client EXCEPT
              !.updating = FALSE,
              !.isUndoing = FALSE,
              !.rows[id].can_undo = IF applied THEN FALSE ELSE @,
              !.log = IF applied
                      THEN Append(@, [op |-> "update", id |-> id,
                                      commit_sha |-> client.rows[id].commit_sha,
                                      ok |-> TRUE,
                                      before |-> client.rows[id].can_undo,
                                      after |-> FALSE,
                                      answer |-> client.undoable.answer])
                      ELSE @])
    /\ UNCHANGED <<env, backendOut, history, otherWrites, ai, agentVars,
                   undoVars>>

ClientStep ==
    \/ ClientMount
    \/ \E loaded \in client.loading : LoadCommitsDone(loaded)
    \/ SendMessage
    \/ \E found \in BOOLEAN : SendLookup(found)
    \/ \E outcome \in {"error", "plain", "commit"} : SendDone(outcome)
    \/ UndoLastCommit
    \/ \E outcome \in {"ok", "notok", "throw"} : UndoAnswered(outcome)
    \/ \E applied \in BOOLEAN : UndoUpdate(applied)

----------------------------------------------------------------------------
(* Specification of one code-agent run beside other writers *)

\* the trees a repository starts from
InitialTrees ==
    {[p \in Paths |-> Some(COld)],
     [p \in Paths |-> IF p = "a.ts" THEN None ELSE Some(COld)]}

\* the first commit: every file of its tree is added, and it has no parent
RootCommit(tree) ==
    [author |-> "root",
     files |-> [i \in 1..Len(BlobPaths(tree)) |->
                  [filename |-> BlobPaths(tree)[i], status |-> "added"]],
     tree |-> tree]

InitAgent ==
    /\ pc = "idle"
    /\ backendOut = NoOutputs
    /\ intent = <<>>
    /\ allFiles = <<>>
    /\ selectedFiles = <<>>
    /\ pending = {}
    /\ fileContents = <<>>
    /\ parsed = [kind |-> "none", changes |-> <<>>]
    /\ idx = 0
    /\ freshFile = None
    /\ freshAt = 0
    /\ lastCommitSha = NullSha
    /\ filesChanged = <<>>
    /\ errors = <<>>
    /\ response = NoResponse
    /\ putLog = <<>>

InitUndo ==
    /\ upc = "idle"
    /\ ureq = [commit_sha |-> NullSha, at |-> 0]
    /\ ucommit = [parent |-> NullSha, files |-> <<>>]
    /\ uidx = 0
    /\ uparent = None
    /\ ucurrent = None
    /\ filesReverted = <<>>
    /\ uresponse = NoResponse
    /\ ulog = <<>>

Init ==
    /\ client = ClientInit
    /\ env = [faults |-> TRUE, loads |-> FALSE, others |-> MaxOtherWrites,
              during |-> TRUE]
    /\ \E tree \in InitialTrees : history = <<RootCommit(tree)>>
    /\ otherWrites = 0
    /\ ai = AiIdle
    /\ InitAgent
    /\ InitUndo

Next == AgentStep \/ AdapterStep \/ OtherStep

Spec == Init /\ [][Next]_vars

----------------------------------------------------------------------------
(* Specification of one undo call beside other writers *)

InitUndoOnly ==
    /\ client = ClientInit
    /\ env = [faults |-> TRUE, loads |-> TRUE, others |-> MaxUndoOtherWrites,
              during |-> FALSE]
    /\ \E tree \in InitialTrees : history = <<RootCommit(tree)>>
    /\ otherWrites = 0
    /\ ai = AiIdle
    /\ InitAgent
    /\ InitUndo

NextUndo == UndoStep \/ OtherStep

SpecUndo == InitUndoOnly /\ [][NextUndo]_vars

----------------------------------------------------------------------------
(* Specification of a code-agent run followed by an undo call, with no   *)
(* other writer                                                          *)

InitChain ==
    /\ client = ClientInit
    /\ env = [faults |-> TRUE, loads |-> TRUE, others |-> 0, during |-> FALSE]
    /\ \E tree \in InitialTrees : history = <<RootCommit(tree)>>
    /\ otherWrites = 0
    /\ ai = AiIdle
    /\ InitAgent
    /\ InitUndo

NextChain == AgentStep \/ AdapterStep \/ UndoStep

SpecChain == InitChain /\ [][NextChain]_vars

----------------------------------------------------------------------------
(* Specification of a client session: the user sends messages and undoes *)
(* commits; the two endpoints answer as they may                         *)

InitClient ==
    /\ client = ClientInit
    /\ env = [faults |-> TRUE, loads |-> TRUE, others |-> 0, during |-> FALSE]
    /\ \E tree \in InitialTrees : history = <<RootCommit(tree)>>
    /\ otherWrites = 0
    /\ ai = AiIdle
    /\ InitAgent
    /\ InitUndo

NextClient == ClientStep

SpecClient == InitClient /\ [][NextClient]_vars

\* every promise sendMessage and undoLastCommit await settles: the user
\* lookup, the endpoints' answers and the table queries are not left pending
\* for ever
ClientFairness ==
    /\ WF_vars(\E found \in BOOLEAN : SendLookup(found))
    /\ WF_vars(\E outcome \in {"error", "plain", "commit"} : SendDone(outcome))
    /\ WF_vars(\E outcome \in {"ok", "notok", "throw"} : UndoAnswered(outcome))
    /\ WF_vars(\E applied \in BOOLEAN : UndoUpdate(applied))
    /\ WF_vars(\E loaded \in client.loading : LoadCommitsDone(loaded))

SpecClientFair == SpecClient /\ ClientFairness

----------------------------------------------------------------------------
(* Specification of the selection step over wide listings: the tree and  *)
(* the selector's output are drawn, and the step is applied              *)

\* the first k paths of the tree order, as the set of a tree's blobs
FirstPaths(k) == {TreeOrder[i] : i \in 1..k}

\* trees over all the paths: the first k are blobs, or all but the first k
ListedTrees ==
    {[p \in FirstPaths(Len(TreeOrder)) |->
        IF p \in FirstPaths(k) THEN Some(COld) ELSE None] :
       k \in 0..Len(TreeOrder)}
    \cup
    {[p \in FirstPaths(Len(TreeOrder)) |->
        IF p \in FirstPaths(k) THEN None ELSE Some(COld)] :
       k \in 0..Len(TreeOrder)}

\* the paths of the tree order that end with an allow-listed extension
CodePaths == SelectSeq(TreeOrder, LAMBDA p : PathExt[p] # "")

\* selector outputs over the wide listings: those of SelectionOutputs, arrays
\* of one path, of a path of no tree, of a path with no allow-listed
\* extension, of a repeated path, and of more paths than the prompt asks for
ListedSelectionOutputs ==
    SelectionOutputs
    \cup {[kind |-> "array", val |-> v] :
            v \in {<<"a.ts">>, <<"ghost.ts">>, <<"README.md", "q.ts">>,
                   <<"c.js", "c.js", "ghost.ts">>,
                   SubSeq(CodePaths, 1, SelectorCap),
                   SubSeq(CodePaths, 1, SelectorCap + 1),
                   CodePaths}}

InitSelect ==
    /\ client = ClientInit
    /\ env = [faults |-> TRUE, loads |-> TRUE, others |-> 0, during |-> FALSE]
    /\ \E tree \in ListedTrees : history = <<RootCommit(tree)>>
    /\ otherWrites = 0
    /\ InitUndo
    /\ pc = "select"
    /\ ai = [NewCall("select") EXCEPT !.pc = "returned", !.primary = 1,
                                      !.seen = <<200>>]
    /\ backendOut = NoOutputs
    /\ intent = CodeToken
    /\ allFiles = BlobPaths(HeadTree)
    /\ selectedFiles = <<>>
    /\ pending = {}
    /\ fileContents = <<>>
    /\ parsed = [kind |-> "none", changes |-> <<>>]
    /\ idx = 0
    /\ freshFile = None
    /\ freshAt = 0
    /\ lastCommitSha = NullSha
    /\ filesChanged = <<>>
    /\ errors = <<>>
    /\ response = NoResponse
    /\ putLog = <<>>

NextSelect == \E out \in ListedSelectionOutputs : SelectDone(out)

SpecSelect == InitSelect /\ [][NextSelect]_vars

----------------------------------------------------------------------------
(* Specification of the context loads: the selection is made over a tree *)
(* with bodies around the context ceiling, and the parallel loads        *)
(* complete in any order, served, refused or failing                     *)

\* trees of three paths: two short bodies around a body that is just below
\* the ceiling or reaches it
LoadTrees ==
    {[p \in {"a.ts", "b.css", "c.js"} |->
        IF p = "b.css" THEN Some(big) ELSE Some(COld)] :
       big \in {CBelowCeiling, CAtCeiling}}

InitLoad ==
    /\ client = ClientInit
    /\ env = [faults |-> TRUE, loads |-> TRUE, others |-> 0, during |-> FALSE]
    /\ \E tree \in LoadTrees : history = <<RootCommit(tree)>>
    /\ otherWrites = 0
    /\ InitUndo
    /\ pc = "load"
    /\ ai = AiIdle
    /\ intent = CodeToken
    /\ allFiles = BlobPaths(HeadTree)
    /\ \E out \in {[kind |-> "text", val |-> <<>>],
                    [kind |-> "array", val |-> <<"c.js", "b.css", "c.js">>]} :
          /\ backendOut = [NoOutputs EXCEPT !.selection = out]
          /\ selectedFiles = SelectFiles(out, allFiles)
    /\ pending = 1..Len(selectedFiles)
    /\ fileContents = <<>>
    /\ parsed = [kind |-> "none", changes |-> <<>>]
    /\ idx = 0
    /\ freshFile = None
    /\ freshAt = 0
    /\ lastCommitSha = NullSha
    /\ filesChanged = <<>>
    /\ errors = <<>>
    /\ response = NoResponse
    /\ putLog = <<>>

NextLoad ==
    \/ \E i \in pending : \E outcome \in GatewayOutcomes : LoadFile(i, outcome)
    \/ \E i \in pending : LoadThrow(i)

SpecLoad == InitLoad /\ [][NextLoad]_vars

----------------------------------------------------------------------------
(* Specification of an undo call over a commit that changed several      *)
(* files: a push by another writer on top of the first commit            *)

\* the statuses a pushed commit may give a path: a blob of the parent is
\* modified or removed, a path the parent lacks is added or is the new name
\* of a renamed file
PushStatuses(blob) ==
    IF IsSome(blob) THEN {"modified", "removed"} ELSE {"added", "renamed"}

\* the blob of a path after the push
PushedBlob(status) == IF status = "removed" THEN None ELSE Some(COther)

\* the pushes over a tree: both paths change, a.ts first
PushCommits(tree) ==
    {[author |-> "other",
      files |-> <<[filename |-> "a.ts", status |-> sa],
                  [filename |-> "package.json", status |-> sp]>>,
      tree |-> [p \in Paths |->
                  PushedBlob(IF p = "a.ts" THEN sa ELSE sp)]] :
       sa \in PushStatuses(tree["a.ts"]),
       sp \in PushStatuses(tree["package.json"])}

InitPush ==
    /\ client = ClientInit
    /\ env = [faults |-> TRUE, loads |-> TRUE, others |-> 0, during |-> FALSE]
    /\ \E tree \in InitialTrees : \E push \in PushCommits(tree) :
          history = <<RootCommit(tree), push>>
    /\ otherWrites = 0
    /\ ai = AiIdle
    /\ InitAgent
    /\ InitUndo

NextPush == UndoStep

SpecPush == InitPush /\ [][NextPush]_vars

----------------------------------------------------------------------------
(* Specification of the apply loop of a code-agent run and an undo call, *)
(* one after the other, beside another writer                            *)

\* the validated change sets the apply loop is entered with: two edits of one
\* path, or one edit of each path; each edit declares an action, "create" or
\* "update", whether its path exists or not
SharedChanges ==
    {<<[path |-> "a.ts", content |-> Some(CNew), action |-> "create"],
       [path |-> "a.ts", content |-> Some(CNew), action |-> "update"]>>,
     <<[path |-> "package.json", content |-> Some(CNew), action |-> "create"],
       [path |-> "a.ts", content |-> Some(CNew), action |-> "update"]>>}

\* the run has loaded the files of the fallback selection, the generator has
\* answered with a change set, and the apply loop is at its first edit
InitShared ==
    /\ client = ClientInit
    /\ env = [faults |-> TRUE, loads |-> TRUE, others |-> MaxSharedWrites,
              during |-> FALSE]
    /\ \E tree \in InitialTrees : history = <<RootCommit(tree)>>
    /\ otherWrites = 0
    /\ InitUndo
    /\ pc = "apply_fetch"
    /\ ai = AiIdle
    /\ backendOut = NoOutputs
    /\ intent = CodeToken
    /\ allFiles = BlobPaths(HeadTree)
    /\ selectedFiles = SelectFiles([kind |-> "text", val |-> <<>>], allFiles)
    /\ pending = {}
    /\ fileContents = [i \in 1..Len(selectedFiles) |->
                         Get(GetFileContent("ok", selectedFiles[i]))]
    /\ \E cs \in SharedChanges : parsed = [kind |-> "object", changes |-> cs]
    /\ idx = 1
    /\ freshFile = None
    /\ freshAt = 0
    /\ lastCommitSha = NullSha
    /\ filesChanged = <<>>
    /\ errors = <<>>
    /\ response = NoResponse
    /\ putLog = <<>>

NextShared ==
    \/ \E outcome \in GatewayOutcomes : ApplyFetch(outcome)
    \/ \E outcome \in GatewayOutcomes : ApplyPut(outcome)
    \/ UndoStep
    \/ OtherStep

SpecShared == InitShared /\ [][NextShared]_vars

----------------------------------------------------------------------------
(* Specification of one send: the chat interface has posted the request, *)
(* the code-agent handler runs, and sendMessage handles its answer       *)

\* the interface after mount, with its first query answered and one send made
ClientSent ==
    [ClientInit EXCEPT !.mounted = TRUE, !.isLoading = TRUE, !.sends = 1,
                       !.phase = "request"]

InitSend ==
    /\ client = ClientSent
    /\ env = [faults |-> TRUE, loads |-> FALSE, others |-> 0, during |-> FALSE]
    /\ \E tree \in InitialTrees : history = <<RootCommit(tree)>>
    /\ otherWrites = 0
    /\ ai = AiIdle
    /\ InitAgent
    /\ InitUndo

NextSend ==
    \/ AgentStep
    \/ AdapterStep
    \/ \E delivered \in BOOLEAN : SendAnswered(delivered)
    \/ \E loaded \in client.loading : LoadCommitsDone(loaded)

SpecSend == InitSend /\ [][NextSend]_vars

----------------------------------------------------------------------------
(* Properties of the code-agent handler *)

\* the commits the code-agent run made
AgentCommits == {k \in 1..Len(history) : history[k].author = "agent"}

\* an edit on a critical path whose content is missing or shorter than the
\* minimum after trimming
DangerousEdit(change) ==
    /\ change.path \in {criticalFiles[i] : i \in 1..Len(criticalFiles)}
    /\ \/ ~IsSome(change.content)
       \/ Len(Trim(Get(change.content))) < MinCriticalLength

\* an edit with a non-empty path and a non-empty content
WritableEdit(change) ==
    change.path # "" /\ IsSome(change.content) /\ Get(change.content) # <<>>

\* the run has ended on a change set that passed the safety check
ValidatedRunEnded ==
    /\ pc = "done"
    /\ Len(parsed.changes) > 0
    /\ \A i \in 1..Len(parsed.changes) : ~DangerousEdit(parsed.changes[i])

\* C1: a run whose utterance is classified as conversation (the classifier's
\* output is not the edit-request token) sends no write to the contents API at
\* any point, and its response carries an empty changed-paths list and no
\* commit identifier.
C1_ConversationNeverWrites ==
    intent # CodeToken =>
        /\ putLog = <<>>
        /\ AgentCommits = {}
        /\ filesChanged = <<>>
        /\ response.files_changed = <<>>
        /\ response.commit_sha = NullSha

\* a conversation run that ended with its reply
C1_Witness ==
    /\ pc = "done"
    /\ intent = <<99, 104, 97, 116>>
    /\ response.kind = "ok"
    /\ response.tag = "chat"

\* C2: a change set holding an edit of a critical path with missing or too
\* short content is rejected as a whole: no gateway call is made for any of
\* its edits, the response has an empty changed-paths list and no commit
\* identifier, and it names the path of such an edit.
C2_CriticalEditRejectsWholeSet ==
    (\E i \in 1..Len(parsed.changes) : DangerousEdit(parsed.changes[i])) =>
        /\ pc = "done"
        /\ putLog = <<>>
        /\ AgentCommits = {}
        /\ response.kind = "ok"
        /\ response.files_changed = <<>>
        /\ response.commit_sha = NullSha
        /\ response.tag = "critical"
        /\ \E i \in 1..Len(parsed.changes) :
              /\ DangerousEdit(parsed.changes[i])
              /\ response.path = parsed.changes[i].path

\* a rejected change set whose offending edit comes after a writable one
C2_Witness ==
    /\ pc = "done"
    /\ Len(parsed.changes) = 2
    /\ WritableEdit(parsed.changes[1])
    /\ ~DangerousEdit(parsed.changes[1])
    /\ DangerousEdit(parsed.changes[2])
    /\ response.tag = "critical"

\* C3: after a change set passed validation, every edit with a non-empty path
\* and content is attempted exactly once, in change-set order, whichever of
\* the attempts fail; the path of a successful write is on the changed-paths
\* list and the path of a failed attempt on the error list.
C3_EveryEditAttemptedOnce ==
    ValidatedRunEnded =>
        LET changes == parsed.changes
            writable == {i \in 1..Len(changes) : WritableEdit(changes[i])}
        IN
        /\ Len(putLog) = Cardinality(writable)
        /\ \A k \in 1..Len(putLog) :
              /\ putLog[k].idx \in writable
              /\ putLog[k].path = changes[putLog[k].idx].path
              /\ \A j \in 1..(k - 1) : putLog[j].idx < putLog[k].idx
              /\ IF putLog[k].accepted
                 THEN Includes(filesChanged, putLog[k].path)
                 ELSE Includes(errors, putLog[k].path)

\* a run whose first write failed and whose second write succeeded
C3_Witness ==
    /\ ValidatedRunEnded
    /\ Len(putLog) = 2
    /\ putLog[1].put
    /\ ~putLog[1].accepted
    /\ putLog[2].accepted
    /\ putLog[1].path # putLog[2].path

\* the paths the context load fetched, and the marker it saw for a path
LoadedPaths == {fileContents[i].path : i \in 1..Len(fileContents)}
LoadedMarker(p) ==
    LET i == CHOOSE j \in 1..Len(fileContents) : fileContents[j].path = p
    IN Some(fileContents[i].sha)

\* the marker of an optional blob
BlobMarker(blob) == IF IsSome(blob) THEN Some(BlobSha(Get(blob))) ELSE None

\* the PUT calls of the apply loop
PutCalls == {k \in 1..Len(putLog) : putLog[k].put}

\* a PUT that was accepted over a blob another writer committed after the
\* context load had fetched the path
OverwroteChangeSinceLoad(k) ==
    /\ putLog[k].accepted
    /\ putLog[k].path \in LoadedPaths
    /\ putLog[k].by = "other"
    /\ BlobMarker(putLog[k].before) # LoadedMarker(putLog[k].path)

LaterEditsAttempted(k) ==
    \A i \in (putLog[k].idx + 1)..Len(parsed.changes) :
        WritableEdit(parsed.changes[i]) =>
            \E j \in (k + 1)..Len(putLog) : putLog[j].idx = i

\* C5 as stated: when another writer changes a path between the apply loop's
\* marker fetch for it and its write, the write is rejected, the remote
\* content stays the other writer's, the path is absent from the
\* changed-paths list and present on the error list, the remaining edits are
\* attempted and the run ends with a normal response.
C5_RacedWriteRejected ==
    \A k \in PutCalls :
        putLog[k].raced =>
            /\ ~putLog[k].accepted
            /\ putLog[k].after = putLog[k].before
            /\ Includes(errors, putLog[k].path)
            /\ pc = "done" =>
                  /\ ~Includes(filesChanged, putLog[k].path)
                  /\ HeadTree[putLog[k].path] = putLog[k].before
                  /\ LaterEditsAttempted(k)
                  /\ response.kind = "ok"

\* C5, amended: a write whose marker is no longer the path's current marker,
\* because another writer changed the path after the marker fetch, is
\* rejected: the write leaves the other writer's content in place, adds
\* nothing to the changed-paths list and puts the path on the error list; the
\* remaining edits are attempted and the run ends with a normal response.
\* The path is on the changed-paths list only for other, accepted edits of
\* the same path.
C5_StaleWriteRejected ==
    \A k \in PutCalls :
        (putLog[k].raced /\ BlobMarker(putLog[k].before) # putLog[k].sha) =>
            /\ ~putLog[k].accepted
            /\ putLog[k].after = putLog[k].before
            /\ putLog[k].pushed = 0
            /\ Includes(errors, putLog[k].path)
            /\ pc = "done" =>
                  /\ LaterEditsAttempted(k)
                  /\ response.kind = "ok"
                  /\ Includes(filesChanged, putLog[k].path) =>
                        \E j \in PutCalls : /\ j # k
                                            /\ putLog[j].path = putLog[k].path
                                            /\ putLog[j].accepted

\* a run that ended after a stale write was rejected and a later edit of
\* another path was written
C5_Witness ==
    /\ pc = "done"
    /\ \E k \in PutCalls :
          /\ putLog[k].raced
          /\ putLog[k].by = "other"
          /\ ~putLog[k].accepted
          /\ putLog[k].sha = BlobMarker(putLog[k].fresh)
          /\ \E j \in PutCalls : /\ j > k
                                 /\ putLog[j].accepted
                                 /\ putLog[j].path # putLog[k].path

----------------------------------------------------------------------------
(* Properties of the generation backend adapter *)

\* the delays of a sequence of waits grow strictly
StrictlyIncreasing(waits) ==
    \A i \in 1..(Len(waits) - 1) : waits[i] < waits[i + 1]

\* C6 as stated: in one adapter call, three consecutive rate-limit responses
\* from the primary backend trigger exactly three backoff waits with strictly
\* increasing delay, followed by exactly one call to the fallback backend.
C6_ThreeWaitsThenFallback ==
    ai.limited = 3 =>
        /\ Len(ai.waits) = 3
        /\ StrictlyIncreasing(ai.waits)
        /\ ai.lovable = 1

\* C6, amended: in one adapter call, three consecutive rate-limit responses
\* from the primary backend trigger exactly two backoff waits, of 2000 ms and
\* then 4000 ms, one before each retry and none after the third response; the
\* call then enters the fallback exactly once, which sends one request to the
\* fallback backend when its key is configured and none when it is not.
C6_TwoWaitsThenFallback ==
    /\ Len(ai.waits) <= 2
    /\ ai.limited = 3 =>
          /\ ai.primary = 3
          /\ ai.waits = <<2000, 4000>>
          /\ StrictlyIncreasing(ai.waits)
          /\ ai.lovable = 1
          /\ ai.pc \in {"fallback", "returned", "thrown"}
          /\ ai.pc = "fallback" => ai.fallback = 0
          /\ ai.pc = "returned" => ai.fallback = 1
          /\ ai.fallback <= 1
    /\ ai.lovable = 1 => ai.limited = 3

\* a call that was rate-limited three times and answered by the fallback
C6_Witness ==
    /\ ai.limited = 3
    /\ ai.pc = "returned"
    /\ ai.fallback = 1
    /\ Len(ai.waits) = 2

----------------------------------------------------------------------------
(* Properties of the undo-commit handler *)

\* the write and delete calls of the undo handler
UndoWrites == {k \in 1..Len(ulog) : ulog[k].call \in {"delete", "put"}}

\* the commits the undo handler made
UndoCommits == {k \in 1..Len(history) : history[k].author = "undo"}

\* the gateway served every request of the undo call
UndoServed == \A k \in 1..Len(ulog) : ulog[k].outcome = "ok"

\* the request failed a precondition: its commit identifier is missing, its
\* commit detail could not be fetched, or its commit is the parentless first
\* commit
UndoPreconditionFailed ==
    /\ upc # "idle"
    /\ \/ ureq.commit_sha = NullSha
       \/ \E k \in 1..Len(ulog) : ulog[k].call = "get_commit" /\ ~ulog[k].ok
       \/ /\ \E k \in 1..Len(ulog) : ulog[k].call = "get_commit"
          /\ history[ureq.commit_sha].author = "root"

\* C7: an undo call for a commit without a parent identifier, with a missing
\* parameter, or whose commit detail cannot be fetched ends in a tagged error
\* and sends no write and no delete to the gateway.
C7_FailedPreconditionWritesNothing ==
    UndoPreconditionFailed =>
        /\ upc = "done"
        /\ uresponse.kind = "error"
        /\ uresponse.status = 500
        /\ UndoWrites = {}
        /\ UndoCommits = {}
        /\ \A k \in 1..Len(ulog) : ulog[k].call = "get_commit"
        /\ filesReverted = <<>>

\* an undo of the first commit, whose detail was fetched and lists files
C7_Witness ==
    /\ upc = "done"
    /\ ureq.commit_sha # NullSha
    /\ history[ureq.commit_sha].author = "root"
    /\ Len(history[ureq.commit_sha].files) > 0
    /\ \E k \in 1..Len(ulog) : ulog[k].call = "get_commit" /\ ulog[k].ok
    /\ uresponse.kind = "error"

\* C8 as stated: after the undo of a commit that changed only file A, whose
\* content at the parent revision is C, with no other writer touching A
\* during the undo, fetching A yields exactly C.  The statement is checked
\* for the undo calls all of whose requests the gateway served.
C8_UndoRestoresParentContent ==
    (/\ upc = "done"
     /\ uresponse.kind = "ok"
     /\ UndoServed
     /\ Len(ucommit.files) = 1
     /\ IsSome(history[ucommit.parent].tree[ucommit.files[1].filename])
     /\ ~Touched("other", ucommit.files[1].filename, ureq.at))
    =>
    LET A == ucommit.files[1].filename
        C == Get(history[ucommit.parent].tree[A])
        fetched == GetFileContent("ok", A)
    IN IsSome(fetched) /\ Get(fetched).content = C

\* the path's state before the code-agent run made its first commit
TreeBeforeRun ==
    LET first == CHOOSE k \in AgentCommits : \A j \in AgentCommits : k <= j
    IN history[first - 1].tree

\* C9 as stated: when a run wrote one or more paths and returned commit
\* identifier c with changed-paths list L, undoing c with no intervening
\* write restores every path of L to its state before the run.  The
\* statement is checked for the undo calls all of whose requests the gateway
\* served.
C9_UndoRestoresEveryChangedPath ==
    (/\ pc = "done"
     /\ response.kind = "ok"
     /\ response.commit_sha # NullSha
     /\ upc = "done"
     /\ uresponse.kind = "ok"
     /\ ureq.commit_sha = response.commit_sha
     /\ ureq.at = response.commit_sha
     /\ UndoServed)
    =>
    \A i \in 1..Len(response.files_changed) :
        HeadTree[response.files_changed[i]]
            = TreeBeforeRun[response.files_changed[i]]

\* C10 as stated: every path of the undo call's reverted-paths result was
\* reverted; a path whose delete or write-back the gateway rejected is not in
\* the result.
C10_RejectedPathNotReported ==
    \A k \in UndoWrites :
        ~ulog[k].ok => ~Includes(filesReverted, ulog[k].path)

----------------------------------------------------------------------------
(* Properties of the selection step *)

\* the selector's output was used and the run went on to the loads
SelectionUsed ==
    /\ pc \in {"load", "generate"}
    /\ backendOut.selection.kind # "none"

\* how many of the first i paths of a listing end with an allow-listed
\* extension
RECURSIVE AllowListedUpTo(_, _)
AllowListedUpTo(all, i) ==
    IF i = 0 THEN 0
    ELSE AllowListedUpTo(all, i - 1)
         + (IF \E k \in 1..Len(codeExts) : codeExts[k] = PathExt[all[i]]
            THEN 1 ELSE 0)

\* position i of the listing is among its first twelve allow-listed paths
AmongFirstTwelve(all, i) ==
    /\ \E k \in 1..Len(codeExts) : codeExts[k] = PathExt[all[i]]
    /\ AllowListedUpTo(all, i) <= 12

\* C11: when the selector's output is not parseable as JSON or is the empty
\* array, the selected set is the first twelve blob paths of the tree, in
\* tree order, that end with an allow-listed extension.
C11_UnparseableOrEmptyUsesFallback ==
    (/\ SelectionUsed
     /\ \/ backendOut.selection.kind = "text"
        \/ backendOut.selection = [kind |-> "array", val |-> <<>>])
    => /\ \A i \in 1..Len(allFiles) :
            AmongFirstTwelve(allFiles, i) <=> Includes(selectedFiles, allFiles[i])
       /\ \A j \in 1..Len(selectedFiles) : Includes(allFiles, selectedFiles[j])
       /\ \A j, k \in 1..Len(selectedFiles) :
            j < k => \E a, b \in 1..Len(allFiles) :
                        /\ a < b
                        /\ allFiles[a] = selectedFiles[j]
                        /\ allFiles[b] = selectedFiles[k]

\* an unparseable output over a listing with more than twelve allow-listed
\* paths and a path that is not allow-listed before them
C11_Witness ==
    /\ SelectionUsed
    /\ backendOut.selection.kind = "text"
    /\ Len(allFiles) > 0
    /\ AllowListedUpTo(allFiles, Len(allFiles)) > 12
    /\ allFiles[1] = "README.md"
    /\ Len(selectedFiles) = 12

----------------------------------------------------------------------------
(* Properties of the intent classification *)

\* the classifier's output was read and the run took one of the two paths
Classified == IsSome(backendOut.intent) /\ pc \in {"branch", "chat"}

\* the letters i..j of a text spell the token in either case, and every
\* character outside them is white space
SpellsToken(raw, i, j) ==
    /\ j - i + 1 = Len(CodeToken)
    /\ \A k \in 1..Len(CodeToken) :
          raw[i + k - 1] \in {CodeToken[k], CodeToken[k] - 32}
    /\ \A k \in 1..Len(raw) : (k < i \/ k > j) => raw[k] \in Whitespace

\* C12: a run enters the edit chain exactly when the classifier's output,
\* trimmed and lower-cased, is the literal token; every other output, the
\* empty or missing one included, takes the conversation path.
C12_EditChainIffToken ==
    Classified =>
       LET raw == Get(backendOut.intent) IN
       /\ pc = "branch" <=> \E i, j \in 1..Len(raw) : SpellsToken(raw, i, j)
       /\ pc = "chat" <=> ~ \E i, j \in 1..Len(raw) : SpellsToken(raw, i, j)

\* the token in another case and inside white space entered the edit chain
C12_Witness ==
    /\ Classified
    /\ pc = "branch"
    /\ Get(backendOut.intent) # CodeToken

----------------------------------------------------------------------------
(* Properties of the chat client *)

\* the entries of the client's log that changed the flag of record id from
\* true to false
FlagCleared(id) ==
    {k \in 1..Len(client.log) :
        /\ client.log[k].op = "update"
        /\ client.log[k].id = id
        /\ client.log[k].before
        /\ ~client.log[k].after}

\* C13: the undoable flag of every commit record starts true; its only
\* transition is from true to false, at most once, and only after the undo
\* endpoint returned a non-error answer for that record's commit id; when the
\* undo endpoint answers with an error the flag is unchanged.
C13_UndoableFlagClearedOnceAfterUndo ==
    /\ \A k \in 1..Len(client.log) :
          LET e == client.log[k] IN
          /\ e.op = "insert" => e.after /\ e.id \notin {client.log[j].id : j \in 1..(k - 1)}
          /\ e.op = "update" =>
                /\ ~e.after
                /\ e.answer \in 1..(k - 1)
                /\ client.log[e.answer].op = "answer"
                /\ client.log[e.answer].ok
                /\ client.log[e.answer].commit_sha = client.rows[e.id].commit_sha
          /\ (e.op = "answer" /\ ~e.ok) =>
                \A j \in (k + 1)..Len(client.log) : client.log[j].answer # k
    /\ \A id \in 1..Len(client.rows) :
          /\ Cardinality(FlagCleared(id)) <= 1
          /\ client.rows[id].can_undo <=> FlagCleared(id) = {}

\* the undo of a record failed once, then succeeded, and a third request for
\* the same record found the flag already cleared
C13_Witness ==
    \E id \in 1..Len(client.rows) :
       /\ ~client.rows[id].can_undo
       /\ \E k \in 1..Len(client.log) :
             /\ client.log[k].op = "answer"
             /\ client.log[k].id = id
             /\ ~client.log[k].ok
       /\ \E k \in 1..Len(client.log) :
             /\ client.log[k].op = "update"
             /\ client.log[k].id = id
             /\ ~client.log[k].before

----------------------------------------------------------------------------
(* Properties of the code-agent handler's failures *)

\* the adapter call threw for a reason other than an authentication failure:
\* a generic failure of the primary backend, or three rate-limit answers
\* followed by no fallback key or by a failure of the fallback backend
ThrownNotCredential ==
    /\ ai.pc = "thrown"
    /\ ai.seen # <<>>
    /\ ai.seen[Len(ai.seen)] \notin {401, 403}

\* C14: a failure other than a credential failure or a missing parent commit
\* degrades to a normal response: a run that ends at a generic backend
\* failure, at exhausted rate-limit recovery or at a tree-listing failure does
\* not end with a tagged error.
C14_OtherFailuresDegrade ==
    [][(/\ pc # "done"
        /\ pc' = "done"
        /\ pc = "tree" \/ ThrownNotCredential)
       => response'.kind # "error"]_vars

\* the generator's output was read and held no change to apply
NothingGenerated ==
    /\ pc = "done"
    /\ parsed.kind # "none"
    /\ parsed.changes = <<>>

\* C15: whatever text the generator's backend returns that holds no change
\* set (text that is no JSON, JSON that is no object such as null, an object
\* with a missing or empty changes array), the run ends with a normal no-op
\* response, an empty changed-paths list and no commit id, writes nothing,
\* and does not end with a tagged error.
C15_MalformedGenerationIsNoOp ==
    NothingGenerated =>
       /\ response.kind = "ok"
       /\ response.tag \in {"apology", "noop"}
       /\ response.files_changed = <<>>
       /\ response.commit_sha = NullSha
       /\ putLog = <<>>

\* C16: whatever text the selector's backend returns with a success status
\* (text that is no JSON, or JSON that is no array of strings: an object, a
\* number, null), the step that reads it hands the run on to the context
\* loads and the change generator, and the run does not end with a tagged
\* error because of that output.
C16_MalformedSelectionProceeds ==
    [][(pc = "select" /\ ai.pc = "returned" /\ pc' # pc)
       => /\ pc' \in {"load", "generate"}
          /\ response'.kind # "error"]_vars

\* the last answer of the primary backend was an authentication failure
AuthFailed ==
    /\ ai.seen # <<>>
    /\ ai.seen[Len(ai.seen)] \in {401, 403}

\* C17: on a 401 or 403 from the primary backend at any attempt the adapter
\* calls neither backend again and throws an error tagged as a credential
\* problem; the run then ends with that tagged error and without a write.
C17_AuthFailureEndsCallAndRun ==
    [][AuthFailed =>
         /\ ai.pc = "thrown"
         /\ ai.status = 401
         /\ ai.fallback = 0
         /\ \A k \in 1..(Len(ai.seen) - 1) : ai.seen[k] = 429
         /\ \/ /\ ai' = ai
               /\ UNCHANGED <<pc, response, putLog>>
            \/ /\ pc' = "done"
               /\ ai'.primary = 0
               /\ ai'.fallback = 0
               /\ response'.kind = "error"
               /\ response'.status = 401
               /\ putLog = <<>>
               /\ putLog' = <<>>
               /\ history' = history]_vars

\* an edit run whose tree was listed ended with the credential error
C17_Witness ==
    /\ pc = "done"
    /\ response.kind = "error"
    /\ response.status = 401
    /\ intent = CodeToken
    /\ allFiles # <<>>
    /\ putLog = <<>>

----------------------------------------------------------------------------
(* Properties of one adapter call *)

\* the adapter call is over
CallEnded == ai.pc \in {"returned", "thrown"}

\* all three answers of the primary backend were rate-limit signals
ThreeRateLimits == ai.seen = <<429, 429, 429>>

\* what holds of every adapter call whatever the fallback does: at most three
\* requests to the primary backend and one to the fallback backend, every
\* answer before the last a rate-limit signal, a call that ends on the first
\* success or other failure, and delays that double
CallShape ==
    /\ ai.primary <= 3
    /\ ai.primary = Len(ai.seen)
    /\ ai.fallback <= 1
    /\ \A k \in 1..(Len(ai.seen) - 1) : ai.seen[k] = 429
    /\ (ai.seen # <<>> /\ ai.seen[Len(ai.seen)] # 429) =>
          /\ CallEnded
          /\ ai.fallback = 0
          /\ ai.seen[Len(ai.seen)] = 200 <=> ai.pc = "returned"
    /\ \A i \in 1..(Len(ai.waits) - 1) : ai.waits[i + 1] = 2 * ai.waits[i]
    /\ Len(ai.waits) <= Len(ai.seen)

\* C18 as stated: in every adapter call at most 3 calls go to the primary
\* backend and at most 1 to the fallback backend; the fallback backend is
\* called if and only if all 3 primary responses were rate-limit signals; the
\* first success or other failure ends the call; each delay is double the
\* previous one.
C18_FallbackIffThreeRateLimits ==
    /\ CallShape
    /\ CallEnded => (ai.fallback = 1 <=> ThreeRateLimits)

\* C18, amended: as stated, except that the fallback backend is called if
\* and only if all 3 primary responses were rate-limit signals and the
\* fallback key is configured; with no key the call ends with an error after
\* the third rate-limit signal and no request to the fallback backend.
C18_FallbackIffThreeRateLimitsAndKey ==
    /\ CallShape
    /\ ai.lovable = 1 <=> ThreeRateLimits
    /\ CallEnded => (ai.fallback = 1 <=> ThreeRateLimits /\ ai.key)
    /\ (CallEnded /\ ThreeRateLimits /\ ~ai.key) =>
          ai.pc = "thrown" /\ ai.status = 500

\* a call that was rate-limited three times where no fallback key is set
C18_Witness ==
    /\ CallEnded
    /\ ThreeRateLimits
    /\ ~ai.key
    /\ ai.fallback = 0
    /\ ai.waits = <<2000, 4000>>

----------------------------------------------------------------------------
(* Properties of the context loads *)

\* C19: the number of paths loaded in parallel never exceeds the selector's
\* count cap of 15, whatever array the selector's backend returns.
C19_LoadsWithinSelectorCap ==
    /\ Len(selectedFiles) <= SelectorCap
    /\ Cardinality(pending) <= SelectorCap

\* the blob paths of the tree the run listed
ListedPaths == {allFiles[i] : i \in 1..Len(allFiles)}

\* C20: every path handed to the context loads is a blob path of the tree
\* listed in the same run; a path the selector's backend returned that is not
\* in the tree is never fetched.
C20_OnlyListedPathsLoaded ==
    /\ \A i \in 1..Len(selectedFiles) : selectedFiles[i] \in ListedPaths
    /\ \A i \in 1..Len(fileContents) : fileContents[i].path \in ListedPaths
    /\ \A i \in 1..Len(backendOut.selection.val) :
          backendOut.selection.val[i] \notin ListedPaths =>
             /\ ~Includes(selectedFiles, backendOut.selection.val[i])
             /\ \A j \in 1..Len(fileContents) :
                   fileContents[j].path # backendOut.selection.val[i]

\* the selector named a path of no tree beside a listed one, and the loads
\* are over
C20_Witness ==
    /\ pc = "generate"
    /\ Includes(backendOut.selection.val, "ghost.ts")
    /\ selectedFiles = <<"package.json">>
    /\ Len(fileContents) = 1

\* the loads that have completed with a served fetch of a body below the
\* ceiling, in the order of their completion
LoadedBelowCeiling ==
    SelectSeq(backendOut.loads,
              LAMBDA e : /\ e.outcome = "ok"
                         /\ IsSome(HeadTree[e.path])
                         /\ Len(Get(HeadTree[e.path])) < 20000)

\* the generator call is issued only when every selected path's load is over
GenerationAfterAllLoads ==
    pc = "generate" =>
       /\ pending = {}
       /\ Len(backendOut.loads) = Len(selectedFiles)
       /\ \A i \in 1..Len(selectedFiles) :
             Cardinality({k \in 1..Len(backendOut.loads) :
                            backendOut.loads[k].path = selectedFiles[i]})
             = Cardinality({j \in 1..Len(selectedFiles) :
                              selectedFiles[j] = selectedFiles[i]})

\* the context holds exactly the served loads of bodies below the ceiling
ContextIsServedBelowCeiling ==
    pc \in {"load", "generate"} =>
       /\ Len(fileContents) = Len(LoadedBelowCeiling)
       /\ \A k \in 1..Len(fileContents) :
             /\ fileContents[k].path = LoadedBelowCeiling[k].path
             /\ fileContents[k].content = Get(HeadTree[fileContents[k].path])

\* a load failed: its fetch was refused or was rejected
SomeLoadFailed ==
    \E k \in 1..Len(backendOut.loads) : backendOut.loads[k].outcome # "ok"

\* a refused load does not end the run
RefusedLoadGoesOn ==
    (\A k \in 1..Len(backendOut.loads) : backendOut.loads[k].outcome # "throw")
    => pc \in {"load", "generate"} /\ response.kind = "none"

\* C21: under every interleaving of the parallel loads the generator call is
\* issued only after every selected path's load has completed; the context
\* holds exactly the selected paths whose fetch succeeded with a decoded body
\* below 20,000 characters; a failed fetch of one path excludes only that
\* path and never ends the run with a tagged error.
C21_FailedLoadOnlyExcludesItsPath ==
    /\ GenerationAfterAllLoads
    /\ ContextIsServedBelowCeiling
    /\ SomeLoadFailed => response.kind # "error"

----------------------------------------------------------------------------
(* Properties of the response assembly *)

\* the paths of the apply loop's attempts that the remote accepted, and of
\* those that failed, in the order of the attempts
PathsOf(entries) == [k \in 1..Len(entries) |-> entries[k].path]
AcceptedPaths == PathsOf(SelectSeq(putLog, LAMBDA e : e.accepted))
FailedPaths == PathsOf(SelectSeq(putLog, LAMBDA e : ~e.accepted))

\* C22: after all edits are attempted the response follows from the two
\* lists: changed paths and no error give the success text; both non-empty
\* give the success text followed by a warning block that lists every failed
\* path; no changed path and some error give the hard failure response, with
\* an empty changed-paths list and no commit id.
C22_ResponseFollowsFromTheLists ==
    ValidatedRunEnded =>
       /\ response.kind = "ok"
       /\ response.files_changed = AcceptedPaths
       /\ errors = FailedPaths
       /\ (AcceptedPaths # <<>> /\ FailedPaths = <<>>) =>
             response.tag = "applied"
       /\ (AcceptedPaths # <<>> /\ FailedPaths # <<>>) =>
             response.tag = "applied_warned"
       /\ (AcceptedPaths = <<>> /\ FailedPaths # <<>>) =>
             /\ response.tag = "failed"
             /\ response.files_changed = <<>>
             /\ response.commit_sha = NullSha

\* a run with one accepted and one failed write, and a run whose writes
\* all failed, end differently: here the first
C22_Witness ==
    /\ ValidatedRunEnded
    /\ Len(AcceptedPaths) = 1
    /\ Len(FailedPaths) = 1
    /\ response.tag = "applied_warned"

----------------------------------------------------------------------------
(* Properties of the undo loop *)

\* the call with which the loop body of a file starts
FirstCallOf(file) == IF file.status = "added" THEN "get_current" ELSE "get_parent"

\* the undo loop was entered and the call has answered
UndoLoopEnded == upc = "done" /\ Len(ucommit.files) > 0

\* the calls of the log that belong to the file at position i of the commit
CallsFor(i) ==
    {k \in 1..Len(ulog) : ulog[k].path = ucommit.files[i].filename}

\* the file at position i was not reverted: its fetch failed, it is missing,
\* or a request for it was rejected
RevertFailed(i) ==
    \E k \in CallsFor(i) : ulog[k].outcome # "ok" \/ ~ulog[k].ok

\* C23: in an undo call over a commit with several changed files, a failure
\* while reverting one file (a failed fetch, a missing file, a thrown error)
\* never prevents the attempt to revert a later file and never turns the
\* result of the call into a tagged error.
C23_FileFailureDoesNotAbortUndo ==
    /\ upc \in {"parent", "current", "delete", "put"} => uresponse.kind = "none"
    /\ UndoLoopEnded =>
          /\ uresponse.kind = "ok"
          /\ \A i \in 1..Len(ucommit.files) :
                \E k \in CallsFor(i) :
                   /\ ulog[k].call = FirstCallOf(ucommit.files[i])
                   /\ \A j \in 1..(i - 1) : \A m \in CallsFor(j) : m < k

\* the revert of the first file failed by a rejected request and the second
\* file was written back
C23_Witness ==
    /\ UndoLoopEnded
    /\ Len(ucommit.files) = 2
    /\ \E k \in CallsFor(1) : ulog[k].outcome = "throw"
    /\ \E k \in CallsFor(2) : ulog[k].call = "put" /\ ulog[k].ok

\* C24: for every file of the undone commit whose status is not added
\* (modified, removed, renamed) and whose content at the parent revision can
\* be fetched, the undo call writes that parent content back to the path; in
\* particular a file the commit removed is restored.  The statement is
\* checked for the undo calls all of whose requests the gateway served.
C24_ParentContentWrittenBack ==
    (UndoLoopEnded /\ UndoServed) =>
       \A i \in 1..Len(ucommit.files) :
          LET file == ucommit.files[i]
              blob == history[ucommit.parent].tree[file.filename]
          IN (file.status # "added" /\ IsSome(blob)) =>
                /\ \E k \in CallsFor(i) :
                      /\ ulog[k].call = "put"
                      /\ ulog[k].ok
                      /\ ulog[k].after = blob
                /\ HeadTree[file.filename] = blob

\* the answer of the run has reached sendMessage, or was lost on the way
SendHandled == pc = "done" /\ ~client.isLoading

\* the entries of the client's log of the given kind
ClientLogged(op) == {k \in 1..Len(client.log) : client.log[k].op = op}

\* the accepted writes of the apply loop, as positions of the gateway log
AcceptedPuts == {k \in PutCalls : putLog[k].accepted}

ApplyWritePending == pc = "apply_put"

\* the undo loop holds a fetched marker and is about to send its write or
\* delete
UndoWritePending == upc \in {"put", "delete"}

\* the commits made after the history had length n
CommitsSince(n) == (n + 1)..Len(history)

\* C26: every write or delete of the apply loop or of the undo loop carries
\* the marker returned by a fetch of the same path made earlier in the same
\* run, with no other write or delete of that run between the fetch and the
\* write; the marker of the context load or of the undone commit is not the
\* one sent.  A write whose fetch returned no file carries no marker.
C26_MarkerFromFetchJustBefore ==
    /\ ApplyWritePending =>
          /\ IsSome(freshFile) =>
                FreshMarker(freshFile) = MarkerOf(history[freshAt].tree,
                                                  parsed.changes[idx].path)
          /\ \A k \in CommitsSince(freshAt) : history[k].author # "agent"
    /\ \A k \in PutCalls : putLog[k].sha = BlobMarker(putLog[k].fresh)
    /\ UndoWritePending =>
          LET last == ulog[Len(ulog)]
              p == ucommit.files[uidx].filename
          IN /\ last.call = "get_current"
             /\ last.path = p
             /\ last.ok
             /\ ucurrent = BlobMarker(last.after)
    /\ \A k \in 1..Len(ulog) :
          ulog[k].call \in {"put", "delete"} =>
             /\ k > 1
             /\ ulog[k - 1].call = "get_current"
             /\ ulog[k - 1].path = ulog[k].path
             /\ ulog[k - 1].ok

\* the undo loop is about to write over a marker that differs from the one
\* the undone commit left, after an apply loop whose second write to a path
\* carried a marker other than the one the context load saw
C26_Witness ==
    /\ UndoWritePending
    /\ ucurrent # MarkerOf(history[ureq.commit_sha].tree,
                           ucommit.files[uidx].filename)
    /\ \E k \in PutCalls :
          /\ putLog[k].path \in LoadedPaths
          /\ IsSome(putLog[k].sha)
          /\ putLog[k].sha # LoadedMarker(putLog[k].path)

\* the edits of the change set that the apply loop has to skip
SkippedEdits ==
    {i \in 1..Len(parsed.changes) : ~WritableEdit(parsed.changes[i])}

\* no gateway call was made for a skipped edit, and no write has an empty body
OnlyWritableEditsReachGateway ==
    \A k \in 1..Len(putLog) :
        /\ putLog[k].idx \notin SkippedEdits
        /\ putLog[k].accepted => putLog[k].after # Some(CEmpty)

\* a run whose edits were all skipped answers the generic failure
AllSkippedIsGenericFailure ==
    SkippedEdits = 1..Len(parsed.changes) =>
        /\ putLog = <<>>
        /\ response.kind = "ok"
        /\ response.tag = "generic"
        /\ response.files_changed = <<>>
        /\ response.commit_sha = NullSha

\* C27 as stated: an edit with no path or no content is skipped: no gateway
\* call is made for it and its path is on neither the changed-paths list nor
\* the error list; no empty body is written; a validated change set whose
\* edits are all skipped ends with the generic failure, no changed path and
\* no commit identifier.
C27_SkippedPathOnNeitherList ==
    ValidatedRunEnded =>
        /\ OnlyWritableEditsReachGateway
        /\ AllSkippedIsGenericFailure
        /\ \A i \in SkippedEdits :
              /\ ~Includes(filesChanged, parsed.changes[i].path)
              /\ ~Includes(errors, parsed.changes[i].path)

\* C27, amended: a skipped edit causes no gateway call and adds nothing to
\* the changed-paths list or the error list, whose entries are one per edit
\* that reached the gateway; no empty body is written; a validated change
\* set whose edits are all skipped ends with the generic failure, no changed
\* path and no commit identifier.
C27_SkippedEditAddsNothing ==
    ValidatedRunEnded =>
        /\ OnlyWritableEditsReachGateway
        /\ AllSkippedIsGenericFailure
        /\ Len(filesChanged) + Len(errors) = Len(putLog)
        /\ \A k \in 1..Len(putLog) :
              \/ Includes(filesChanged, putLog[k].path)
              \/ Includes(errors, putLog[k].path)
        /\ \A i \in 1..Len(filesChanged) :
              \E k \in 1..Len(putLog) : putLog[k].path = filesChanged[i]
        /\ \A i \in 1..Len(errors) :
              \E k \in 1..Len(putLog) : putLog[k].path = errors[i]

\* a run that skipped one edit of a path and wrote another edit of that path
C27_Witness ==
    /\ ValidatedRunEnded
    /\ \E i \in SkippedEdits :
          /\ Includes(filesChanged, parsed.changes[i].path)
          /\ \A k \in 1..Len(putLog) : putLog[k].idx # i

\* the action the edit of log entry k declares
DeclaredAction(k) == parsed.changes[putLog[k].idx].action

\* C28: a write of the apply loop carries a marker if and only if the fresh
\* fetch of its path returned a file, whatever action the edit declares; a
\* write with a marker is accepted only over an existing file, which it
\* overwrites, and a write without one only where no file exists, so an edit
\* declared as create on an existing path overwrites the file.
C28_CreateOrOverwriteByFreshFetch ==
    \A k \in PutCalls :
        /\ IsSome(putLog[k].sha) <=> IsSome(putLog[k].fresh)
        /\ IsSome(putLog[k].fresh) =>
              putLog[k].sha = Some(BlobSha(Get(putLog[k].fresh)))
        /\ putLog[k].accepted =>
              /\ IsSome(putLog[k].sha) <=> IsSome(putLog[k].before)
              /\ putLog[k].after = Some(CNew)

\* an edit declared as create overwrote an existing file, and an edit declared
\* as update created a file
C28_Witness ==
    /\ \E k \in PutCalls :
          /\ DeclaredAction(k) = "create"
          /\ putLog[k].accepted
          /\ IsSome(putLog[k].sha)
          /\ putLog[k].before = Some(COld)
    /\ \E k \in PutCalls :
          /\ DeclaredAction(k) = "update"
          /\ putLog[k].accepted
          /\ ~IsSome(putLog[k].sha)
          /\ ~IsSome(putLog[k].before)

\* the step is an undo action of the user: a request is sent
UndoRequested == client'.undos = client.undos + 1

\* the stored record with the given id is the newest one whose flag is true
NewestUndoable(id) ==
    /\ id \in 1..Len(client.rows)
    /\ client.rows[id].can_undo
    /\ \A j \in (id + 1)..Len(client.rows) : ~client.rows[j].can_undo

\* C29: over any sequence of send and undo actions, each undo request names
\* the most recently created commit record whose undoable flag is still true
\* when the request is made; with no such record, no request is sent.
C29_UndoTargetsNewestUndoable ==
    [][UndoRequested => NewestUndoable(client'.undoable.id)]_vars

\* a step that sends a pipeline request or starts a send
SendStarted == client'.sends # client.sends

\* C30: a send action while a pipeline request is in flight does nothing, so
\* at most one pipeline request is in flight at a time; and after every send
\* action the loading flag eventually returns to false, whether the request
\* succeeded, failed, or the user lookup before the request failed.
C30_OneRequestAndLoadingCleared ==
    /\ [][client.isLoading => ~SendStarted]_vars
    /\ client.isLoading ~> ~client.isLoading

====
